---- MODULE Spec2Model ----
(***************************************************************************)
(* Model of PodletJS: the docker/podman run command parser                 *)
(* (src/src/docker-run-parser.js) and the Container model                  *)
(* (src/src/container.js).                                                 *)
(*                                                                         *)
(* A JavaScript string is a sequence of one-character strings, so that     *)
(* splitting, escaping and tokenizing are computed character by character. *)
(* The JavaScript values null and undefined are two one-element sequences  *)
(* that no string equals.  Array indices are the 0-based indices of the    *)
(* source; At(a, k) is the source's a[k].                                  *)
(***************************************************************************)
EXTENDS Integers, Sequences, FiniteSets, TLC

\* ------------------------------------------------------------------ bounds
MaxTokens == 3
MaxChars == 4

\* ------------------------------------------------------ JavaScript values
Null == <<"null">>
Undefined == <<"undefined">>

At(a, k) == IF k >= 0 /\ k < Len(a) THEN a[k + 1] ELSE Undefined

Truthy(v) == v # Null /\ v # Undefined /\ v # <<>>

\* String(undefined) / String(null)
ToStr(v) == IF v = Undefined THEN <<"u","n","d","e","f","i","n","e","d">> ELSE IF v = Null THEN <<"n","u","l","l">> ELSE v

\* ------------------------------------------------------ character classes
Digits == {"0","1","2","3","4","5","6","7","8","9"}
LowerLetters == {"a","b","c","d","e","f","g","h","i","j","k","l","m","n","o","p","q","r","s","t","u","v","w","x","y","z"}
UpperLetters == {"A","B","C","D","E","F","G","H","I","J","K","L","M","N","O","P","Q","R","S","T","U","V","W","X","Y","Z"}
UpperSeq == <<"A","B","C","D","E","F","G","H","I","J","K","L","M","N","O","P","Q","R","S","T","U","V","W","X","Y","Z">>
LowerSeq == <<"a","b","c","d","e","f","g","h","i","j","k","l","m","n","o","p","q","r","s","t","u","v","w","x","y","z">>
Whitespace == {" ", "\t", "\n", "\r", "\f"}
SizeSuffix == {"k","m","g","t","K","M","G","T"}
\* the backquote character, which a TLA+ string literal cannot hold
Backquote == "backquote"

\* the character class of /[\s"'`$\\|&;()<>]/
ShellSpecial == Whitespace \cup {"\"", "'", Backquote, "$", "\\", "|", "&", ";", "(", ")", "<", ">"}

\* ------------------------------------------------------- string functions
Includes(s, c) == \E k \in 1..Len(s) : s[k] = c

StartsWith(s, p) == Len(s) >= Len(p) /\ SubSeq(s, 1, Len(p)) = p

IndexOf(s, c) == IF Includes(s, c) THEN CHOOSE k \in 1..Len(s) : s[k] = c /\ \A j \in 1..(k - 1) : s[j] # c ELSE 0

\* s.split(c): the segments of s between the occurrences of c
RECURSIVE Split(_, _)
Split(s, c) == IF ~Includes(s, c) THEN <<s>> ELSE <<SubSeq(s, 1, IndexOf(s, c) - 1)>> \o Split(SubSeq(s, IndexOf(s, c) + 1, Len(s)), c)

\* a.join(sep)
RECURSIVE Join(_, _)
Join(a, sep) ==
  LET first == IF a[1] \in {Null, Undefined} THEN <<>> ELSE a[1]
  IN IF Len(a) = 0 THEN <<>> ELSE IF Len(a) = 1 THEN first ELSE first \o sep \o Join(Tail(a), sep)

\* s.replace(/^-+/, '')
RECURSIVE StripDashes(_)
StripDashes(s) == IF Len(s) > 0 /\ s[1] = "-" THEN StripDashes(Tail(s)) ELSE s

LowerChar(ch) == IF ch \in UpperLetters THEN LowerSeq[CHOOSE k \in 1..26 : UpperSeq[k] = ch] ELSE ch

ToLowerCase(s) == [k \in 1..Len(s) |-> LowerChar(s[k])]

AllDigits(s) == Len(s) >= 1 /\ \A k \in 1..Len(s) : s[k] \in Digits

\* /^\d+[kmgtKMGT]?$/
MatchSize(s) == AllDigits(s) \/ (Len(s) >= 2 /\ AllDigits(SubSeq(s, 1, Len(s) - 1)) /\ s[Len(s)] \in SizeSuffix)

\* /^\d+(\.\d+)?$/
MatchDecimal(s) == AllDigits(s) \/ \E k \in 1..Len(s) : s[k] = "." /\ AllDigits(SubSeq(s, 1, k - 1)) /\ AllDigits(SubSeq(s, k + 1, Len(s)))

\* /^[a-z][a-z0-9]*:/
MatchKeyPrefix(s) == \E k \in 2..Len(s) : s[k] = ":" /\ s[1] \in LowerLetters /\ \A j \in 2..(k - 1) : s[j] \in (LowerLetters \cup Digits)

\* /^[a-z0-9]+[a-z0-9._-]*$/i
MatchNamePattern(s) == Len(s) >= 1 /\ LowerChar(s[1]) \in (LowerLetters \cup Digits) /\ \A k \in 1..Len(s) : LowerChar(s[k]) \in (LowerLetters \cup Digits \cup {".", "_", "-"})

\* ----------------------------------------------------------- the tokenizer
TokInit == [args |-> <<>>, current |-> <<>>, inQuotes |-> FALSE, quoteChar |-> "", escaped |-> FALSE]

\* the loop body splitting on whitespace inside quotes too
TokStep_mut(t, ch) ==
  IF t.escaped THEN [t EXCEPT !.current = Append(@, ch), !.escaped = FALSE]
  ELSE IF ch = "\\" THEN [t EXCEPT !.escaped = TRUE]
  ELSE IF ~t.inQuotes /\ ch \in {"\"", "'"} THEN [t EXCEPT !.inQuotes = TRUE, !.quoteChar = ch]
  ELSE IF t.inQuotes /\ ch = t.quoteChar THEN [t EXCEPT !.inQuotes = FALSE, !.quoteChar = ""]
  ELSE IF ch \in Whitespace THEN (IF t.current # <<>> THEN [t EXCEPT !.args = Append(@, t.current), !.current = <<>>] ELSE t)
  ELSE [t EXCEPT !.current = Append(@, ch)]

\* one iteration of the for loop of _tokenizeCommand
TokStep(t, ch) ==
  IF t.escaped THEN [t EXCEPT !.current = Append(@, ch), !.escaped = FALSE]
  ELSE IF ch = "\\" THEN [t EXCEPT !.escaped = TRUE]
  ELSE IF ~t.inQuotes /\ ch \in {"\"", "'"} THEN [t EXCEPT !.inQuotes = TRUE, !.quoteChar = ch]
  ELSE IF t.inQuotes /\ ch = t.quoteChar THEN [t EXCEPT !.inQuotes = FALSE, !.quoteChar = ""]
  ELSE IF ~t.inQuotes /\ ch \in Whitespace THEN (IF t.current # <<>> THEN [t EXCEPT !.args = Append(@, t.current), !.current = <<>>] ELSE t)
  ELSE [t EXCEPT !.current = Append(@, ch)]

\* the push after the loop without the test for an empty token
TokFinish_mut(t) == Append(t.args, t.current)

\* the push after the loop
TokFinish(t) == IF t.current # <<>> THEN Append(t.args, t.current) ELSE t.args

\* the tokenizer's state after the first k characters of s
RECURSIVE TokAfter(_, _)
TokAfter(s, k) == IF k = 0 THEN TokInit ELSE TokStep(TokAfter(s, k - 1), s[k])

\* _tokenizeCommand on a string
TokenizeString(s) == TokFinish(TokAfter(s, Len(s)))

\* _tokenizeCommand(command)
TokenizeCommand(command) == IF command.kind = "array" THEN command.items ELSE TokenizeString(command.text)

\* ------------------------------------------------------------- Container
NoNumber == [kind |-> "null", n |-> 0]

NewContainer ==
  [image |-> <<>>, containerName |-> Null, exec |-> Null,
   addCapability |-> <<>>, dropCapability |-> <<>>,
   addDevice |-> <<>>, mount |-> <<>>, volume |-> <<>>,
   network |-> <<>>, networkAlias |-> <<>>, publishPort |-> <<>>, exposeHostPort |-> <<>>, ip |-> Null, ip6 |-> Null,
   dns |-> <<>>, dnsOption |-> <<>>, dnsSearch |-> <<>>,
   environment |-> <<>>, environmentFile |-> <<>>, environmentHost |-> FALSE,
   noNewPrivileges |-> FALSE, securityLabelDisable |-> FALSE, securityLabelFileType |-> Null, securityLabelLevel |-> Null,
   securityLabelNested |-> FALSE, securityLabelType |-> Null, seccompProfile |-> Null, mask |-> <<>>, unmask |-> Null,
   user |-> Null, group |-> Null, groupAdd |-> <<>>, userNS |-> Null, uidMap |-> <<>>, gidMap |-> <<>>, subUidMap |-> Null, subGidMap |-> Null,
   readOnly |-> FALSE, readOnlyTmpfs |-> TRUE, runInit |-> FALSE, workingDir |-> Null, hostName |-> Null, timezone |-> Null, shmSize |-> Null, tmpfs |-> <<>>,
   healthCmd |-> Null, healthInterval |-> Null, healthOnFailure |-> Null, healthRetries |-> Null, healthStartPeriod |-> Null,
   healthStartupCmd |-> Null, healthStartupInterval |-> Null, healthStartupRetries |-> Null, healthStartupSuccess |-> Null,
   healthStartupTimeout |-> Null, healthTimeout |-> Null,
   notify |-> <<"c","o","n","m","o","n">>, stopSignal |-> Null, stopTimeout |-> NoNumber,
   pod |-> Null, logDriver |-> Null, logOpt |-> <<>>, label |-> <<>>, annotation |-> <<>>,
   pidsLimit |-> Null, ulimit |-> <<>>, sysctl |-> <<>>, autoUpdate |-> Null, pull |-> Null, secret |-> <<>>, rootfs |-> Null,
   entrypoint |-> Null, podmanArgs |-> Null]

setImage(c, image) == [c EXCEPT !.image = image]

\* setContainerName writing another field
setContainerName_mut(c, name) == [c EXCEPT !.hostName = name]

setContainerName(c, name) == [c EXCEPT !.containerName = name]

setExec(c, command) == [c EXCEPT !.exec = command]

addPublishPort_mut(c, port) == [c EXCEPT !.publishPort = <<port>> \o @]

addPublishPort(c, port) == [c EXCEPT !.publishPort = Append(@, port)]

addEnvironment(c, env) == [c EXCEPT !.environment = Append(@, env)]

addVolume(c, volume) == [c EXCEPT !.volume = Append(@, volume)]

addLabel(c, label) == [c EXCEPT !.label = Append(@, label)]

\* getDefaultName keeping the tag
getDefaultName_mut(c) ==
  IF Truthy(c.containerName) THEN c.containerName
  ELSE Split(c.image, "/")[Len(Split(c.image, "/"))]

\* getDefaultName: the name, or the last path segment of the image up to ':'
getDefaultName(c) ==
  IF Truthy(c.containerName) THEN c.containerName
  ELSE LET imageParts == Split(c.image, "/")
           imageName == imageParts[Len(imageParts)]
       IN Split(imageName, ":")[1]

\* validate: the list of errors
validate(c) == IF ~Truthy(c.image) THEN <<<<"I","m","a","g","e"," ","i","s"," ","r","e","q","u","i","r","e","d">>>> ELSE <<>>

\* ------------------------------------------------------ escaping, podmanArgs
\* arg.replace(/["\\]/g, '\\$&')
RECURSIVE BackslashEscape(_)
BackslashEscape(s) == IF Len(s) = 0 THEN <<>> ELSE (IF s[1] \in {"\"", "\\"} THEN <<"\\", s[1]>> ELSE <<s[1]>>) \o BackslashEscape(Tail(s))

\* _escapeArg quoting on whitespace only
EscapeArg_mut(arg) ==
  LET a == ToStr(arg) IN
  IF \E k \in 1..Len(a) : a[k] \in Whitespace THEN <<"\"">> \o BackslashEscape(a) \o <<"\"">> ELSE a

EscapeArg(arg) ==
  LET a == ToStr(arg) IN
  IF \E k \in 1..Len(a) : a[k] \in ShellSpecial THEN <<"\"">> \o BackslashEscape(a) \o <<"\"">> ELSE a

\* container.podmanArgs || '' followed by the separating space
PodmanArgsPrefix(c) == IF Truthy(c.podmanArgs) THEN c.podmanArgs \o <<" ">> ELSE <<>>

\* _addToPodmanArgs(container, flag, value = null): an undefined value takes the default
AddToPodmanArgs(c, flag, value) ==
  [c EXCEPT !.podmanArgs = PodmanArgsPrefix(c) \o flag \o (IF value # Null /\ value # Undefined THEN <<" ">> \o EscapeArg(value) ELSE <<>>)]

\* ------------------------------------------------- image / value heuristics
commonImages == {<<"n","g","i","n","x">>, <<"u","b","u","n","t","u">>, <<"a","l","p","i","n","e">>, <<"n","o","d","e">>, <<"p","y","t","h","o","n">>, <<"j","a","v","a">>, <<"r","e","d","i","s">>, <<"m","y","s","q","l">>, <<"p","o","s","t","g","r","e","s">>, <<"m","o","n","g","o">>, <<"h","t","t","p","d">>, <<"t","o","m","c","a","t">>, <<"p","h","p">>, <<"r","u","b","y">>, <<"g","o","l","a","n","g">>, <<"g","c","c">>, <<"o","p","e","n","j","d","k">>, <<"b","u","s","y","b","o","x">>}

\* _looksLikeImageName without the registry-prefix test
LooksLikeImageName_mut(arg) ==
  \/ ToLowerCase(arg) \in commonImages
  \/ (Includes(arg, ":") /\ ~StartsWith(arg, <<":">>))
  \/ (MatchNamePattern(arg) /\ (Includes(arg, "-") \/ Includes(arg, "_") \/ Includes(arg, ".") \/ Len(arg) > 6))

LooksLikeImageName(arg) ==
  \/ ToLowerCase(arg) \in commonImages
  \/ Includes(arg, "/")
  \/ (Includes(arg, ":") /\ ~StartsWith(arg, <<":">>))
  \/ (MatchNamePattern(arg) /\ (Includes(arg, "-") \/ Includes(arg, "_") \/ Includes(arg, ".") \/ Len(arg) > 6))

commandPrefixes == {<<"/">>, <<"s","h">>, <<"b","a","s","h">>, <<"l","s">>, <<"c","a","t">>, <<"e","c","h","o">>, <<"p","y","t","h","o","n">>, <<"n","o","d","e">>, <<"n","p","m">>, <<"y","a","r","n">>, <<"m","a","k","e">>, <<"g","c","c">>, <<"j","a","v","a">>, <<".">>}

LooksLikeCommand(arg) == \E p \in commandPrefixes : StartsWith(arg, p)

\* the look-ahead loop of _looksLikeFlagValue from index k on: TRUE when it returns true
RECURSIVE LookAhead(_, _, _)
LookAhead(arg, args, k) ==
  IF k >= Len(args) THEN FALSE
  ELSE IF StartsWith(At(args, k), <<"-">>) THEN LookAhead(arg, args, k + 1)
  ELSE IF LooksLikeImageName(At(args, k)) /\ ~LooksLikeImageName(arg) THEN TRUE
  ELSE IF LooksLikeCommand(At(args, k)) THEN FALSE
  ELSE LookAhead(arg, args, k + 1)

\* ClearFlagValue without the test for '='
ClearFlagValue_mut(arg) ==
  \/ MatchSize(arg)
  \/ MatchDecimal(arg)
  \/ MatchKeyPrefix(arg)
  \/ (Includes(arg, ":") /\ ~Includes(arg, "/"))

\* the clear indicators tested first by _looksLikeFlagValue
ClearFlagValue(arg) ==
  \/ Includes(arg, "=")
  \/ MatchSize(arg)
  \/ MatchDecimal(arg)
  \/ MatchKeyPrefix(arg)
  \/ (Includes(arg, ":") /\ ~Includes(arg, "/"))

LooksLikeFlagValue(arg, args, argIndex) ==
  IF ClearFlagValue(arg) THEN TRUE
  ELSE IF LookAhead(arg, args, argIndex + 1) THEN TRUE
  ELSE ~LooksLikeImageName(arg)

\* ------------------------------------------------------------ flag handlers
\* what a handler gives back: the next index and the container, or a TypeError
Ok(n, c) == [nextIndex |-> n, container |-> c, threw |-> FALSE]

Threw(n, c) == [nextIndex |-> n, container |-> c, threw |-> TRUE]

HandleUnknownFlag(flag, args, startIndex, c) ==
  LET podmanArgs == PodmanArgsPrefix(c) \o flag
      nextIndex == startIndex + 1
  IN IF Includes(flag, "=") THEN Ok(nextIndex, [c EXCEPT !.podmanArgs = podmanArgs])
     ELSE IF nextIndex < Len(args) /\ ~StartsWith(At(args, nextIndex), <<"-">>) /\ LooksLikeFlagValue(At(args, nextIndex), args, nextIndex)
          THEN Ok(nextIndex + 1, [c EXCEPT !.podmanArgs = podmanArgs \o <<" ">> \o EscapeArg(At(args, nextIndex))])
          ELSE Ok(nextIndex, [c EXCEPT !.podmanArgs = podmanArgs])

\* parseInt(v): the leading decimal digits of v, NaN when there are none
RECURSIVE DigitsValue(_, _)
DigitsValue(s, acc) == IF Len(s) = 0 \/ s[1] \notin Digits THEN acc ELSE DigitsValue(Tail(s), acc * 10 + (CHOOSE d \in 0..9 : <<"0","1","2","3","4","5","6","7","8","9">>[d + 1] = s[1]))

RECURSIVE SkipWhitespace(_)
SkipWhitespace(s) == IF Len(s) > 0 /\ s[1] \in Whitespace THEN SkipWhitespace(Tail(s)) ELSE s

ParseInt(v) ==
  LET t == SkipWhitespace(ToStr(v))
      neg == Len(t) > 0 /\ t[1] = "-"
      u == IF Len(t) > 0 /\ t[1] \in {"-", "+"} THEN Tail(t) ELSE t
  IN IF Len(u) > 0 /\ u[1] \in Digits THEN [kind |-> "int", n |-> IF neg THEN 0 - DigitsValue(u, 0) ELSE DigitsValue(u, 0)] ELSE [kind |-> "NaN", n |-> 0]

\* the user handler leaving the cursor where it was
UserHandler_mut(args, i, c) ==
  LET userSpec == At(args, i + 1) IN
  IF userSpec = Undefined THEN Threw(i, c)
  ELSE IF Includes(userSpec, ":") THEN Ok(i + 2, [c EXCEPT !.user = Split(userSpec, ":")[1], !.group = Split(userSpec, ":")[2]])
  ELSE Ok(i, [c EXCEPT !.user = userSpec])

UserHandler(args, i, c) ==
  LET userSpec == At(args, i + 1) IN
  IF userSpec = Undefined THEN Threw(i, c)
  ELSE IF Includes(userSpec, ":") THEN Ok(i + 2, [c EXCEPT !.user = Split(userSpec, ":")[1], !.group = Split(userSpec, ":")[2]])
  ELSE Ok(i + 2, [c EXCEPT !.user = userSpec])

SecurityOptHandler_mut(args, i, c) ==
  LET opt == At(args, i + 1) IN
  IF opt = <<"n","o","-","n","e","w","-","p","r","i","v","i","l","e","g","e","s",":","t","r","u","e">> THEN Ok(i + 2, [c EXCEPT !.noNewPrivileges = TRUE])
  ELSE IF opt = Undefined THEN Threw(i, c)
  ELSE IF StartsWith(opt, <<"l","a","b","e","l","=","d","i","s","a","b","l","e">>) THEN Ok(i + 2, [c EXCEPT !.securityLabelDisable = TRUE])
  ELSE IF StartsWith(opt, <<"s","e","c","c","o","m","p","=">>) THEN Ok(i + 2, [c EXCEPT !.seccompProfile = SubSeq(opt, 8, Len(opt))])
  ELSE Ok(i + 2, AddToPodmanArgs(c, <<"-","-","s","e","c","u","r","i","t","y","-","o","p","t">>, opt))

SecurityOptHandler(args, i, c) ==
  LET opt == At(args, i + 1) IN
  IF opt = <<"n","o","-","n","e","w","-","p","r","i","v","i","l","e","g","e","s",":","t","r","u","e">> THEN Ok(i + 2, [c EXCEPT !.noNewPrivileges = TRUE])
  ELSE IF opt = Undefined THEN Threw(i, c)
  ELSE IF StartsWith(opt, <<"l","a","b","e","l","=","d","i","s","a","b","l","e">>) THEN Ok(i + 2, [c EXCEPT !.securityLabelDisable = TRUE])
  ELSE IF StartsWith(opt, <<"s","e","c","c","o","m","p","=">>) THEN Ok(i + 2, [c EXCEPT !.seccompProfile = SubSeq(opt, 9, Len(opt))])
  ELSE Ok(i + 2, AddToPodmanArgs(c, <<"-","-","s","e","c","u","r","i","t","y","-","o","p","t">>, opt))

\* Device.parse(spec).toString() of types.js, as the parser test shows it:
\* '/dev/null:/dev/null' is kept as it is
DeviceToString(spec) == spec

DeviceHandler(args, i, c) ==
  IF At(args, i + 1) = Undefined THEN Threw(i, c)
  ELSE Ok(i + 2, [c EXCEPT !.addDevice = Append(@, DeviceToString(At(args, i + 1)))])

IgnoredHandler_mut(name, i, c) == Ok(i + 1, c)

\* d, detach, rm and restart: nothing is written, restart skips its value
IgnoredHandler(name, i, c) == IF name = <<"r","e","s","t","a","r","t">> THEN Ok(i + 2, c) ELSE Ok(i + 1, c)

\* the keys of the table built by _initializeFlagMappings
flagMappings ==
  {<<"n","a","m","e">>, <<"p">>, <<"p","u","b","l","i","s","h">>, <<"v">>, <<"v","o","l","u","m","e">>, <<"e">>, <<"e","n","v">>, <<"e","n","v","i","r","o","n","m","e","n","t">>, <<"e","n","v","-","f","i","l","e">>, <<"l">>, <<"l","a","b","e","l">>, <<"n","e","t","w","o","r","k">>,
   <<"w">>, <<"w","o","r","k","d","i","r">>, <<"u">>, <<"u","s","e","r">>, <<"h">>, <<"h","o","s","t","n","a","m","e">>, <<"e","n","t","r","y","p","o","i","n","t">>, <<"d","e","v","i","c","e">>, <<"c","a","p","-","a","d","d">>, <<"c","a","p","-","d","r","o","p">>, <<"d","n","s">>,
   <<"s","e","c","u","r","i","t","y","-","o","p","t">>, <<"r","e","a","d","-","o","n","l","y">>, <<"t">>, <<"t","t","y">>, <<"i">>, <<"i","n","t","e","r","a","c","t","i","v","e">>, <<"d">>, <<"d","e","t","a","c","h">>, <<"r","m">>, <<"r","e","s","t","a","r","t">>,
   <<"m">>, <<"m","e","m","o","r","y">>, <<"c","p","u","s">>, <<"p","u","l","l">>, <<"s","t","o","p","-","s","i","g","n","a","l">>, <<"s","t","o","p","-","t","i","m","e","o","u","t">>, <<"h","e","a","l","t","h","-","c","m","d">>, <<"t","m","p","f","s">>, <<"i","n","i","t">>}

\* flagMappings[name].handler(args, i, container)
Handler(name, args, i, c) ==
  LET v == At(args, i + 1) IN
  CASE name = <<"n","a","m","e">> -> Ok(i + 2, setContainerName(c, v))
    [] name \in {<<"p">>, <<"p","u","b","l","i","s","h">>} -> Ok(i + 2, addPublishPort(c, v))
    [] name \in {<<"v">>, <<"v","o","l","u","m","e">>} -> Ok(i + 2, addVolume(c, v))
    [] name \in {<<"e">>, <<"e","n","v">>, <<"e","n","v","i","r","o","n","m","e","n","t">>} -> Ok(i + 2, addEnvironment(c, v))
    [] name = <<"e","n","v","-","f","i","l","e">> -> Ok(i + 2, [c EXCEPT !.environmentFile = Append(@, v)])
    [] name \in {<<"l">>, <<"l","a","b","e","l">>} -> Ok(i + 2, addLabel(c, v))
    [] name = <<"n","e","t","w","o","r","k">> -> Ok(i + 2, [c EXCEPT !.network = Append(@, v)])
    [] name \in {<<"w">>, <<"w","o","r","k","d","i","r">>} -> Ok(i + 2, [c EXCEPT !.workingDir = v])
    [] name \in {<<"u">>, <<"u","s","e","r">>} -> UserHandler(args, i, c)
    [] name \in {<<"h">>, <<"h","o","s","t","n","a","m","e">>} -> Ok(i + 2, [c EXCEPT !.hostName = v])
    [] name = <<"e","n","t","r","y","p","o","i","n","t">> -> Ok(i + 2, [c EXCEPT !.entrypoint = v])
    [] name = <<"d","e","v","i","c","e">> -> DeviceHandler(args, i, c)
    [] name = <<"c","a","p","-","a","d","d">> -> Ok(i + 2, [c EXCEPT !.addCapability = Append(@, v)])
    [] name = <<"c","a","p","-","d","r","o","p">> -> Ok(i + 2, [c EXCEPT !.dropCapability = Append(@, v)])
    [] name = <<"d","n","s">> -> Ok(i + 2, [c EXCEPT !.dns = Append(@, v)])
    [] name = <<"s","e","c","u","r","i","t","y","-","o","p","t">> -> SecurityOptHandler(args, i, c)
    [] name = <<"r","e","a","d","-","o","n","l","y">> -> Ok(i + 1, [c EXCEPT !.readOnly = TRUE])
    [] name = <<"t">> -> Ok(i + 1, AddToPodmanArgs(c, <<"-","t">>, Null))
    [] name = <<"t","t","y">> -> Ok(i + 1, AddToPodmanArgs(c, <<"-","-","t","t","y">>, Null))
    [] name = <<"i">> -> Ok(i + 1, AddToPodmanArgs(c, <<"-","i">>, Null))
    [] name = <<"i","n","t","e","r","a","c","t","i","v","e">> -> Ok(i + 1, AddToPodmanArgs(c, <<"-","-","i","n","t","e","r","a","c","t","i","v","e">>, Null))
    [] name \in {<<"d">>, <<"d","e","t","a","c","h">>, <<"r","m">>, <<"r","e","s","t","a","r","t">>} -> IgnoredHandler(name, i, c)
    [] name = <<"m">> -> Ok(i + 2, AddToPodmanArgs(c, <<"-","m">>, v))
    [] name = <<"m","e","m","o","r","y">> -> Ok(i + 2, AddToPodmanArgs(c, <<"-","-","m","e","m","o","r","y">>, v))
    [] name = <<"c","p","u","s">> -> Ok(i + 2, AddToPodmanArgs(c, <<"-","-","c","p","u","s">>, v))
    [] name = <<"p","u","l","l">> -> Ok(i + 2, [c EXCEPT !.pull = v])
    [] name = <<"s","t","o","p","-","s","i","g","n","a","l">> -> Ok(i + 2, [c EXCEPT !.stopSignal = v])
    [] name = <<"s","t","o","p","-","t","i","m","e","o","u","t">> -> Ok(i + 2, [c EXCEPT !.stopTimeout = ParseInt(v)])
    [] name = <<"h","e","a","l","t","h","-","c","m","d">> -> Ok(i + 2, [c EXCEPT !.healthCmd = v])
    [] name = <<"t","m","p","f","s">> -> Ok(i + 2, [c EXCEPT !.tmpfs = Append(@, v)])
    [] name = <<"i","n","i","t">> -> Ok(i + 1, [c EXCEPT !.runInit = TRUE])

\* the names that this.flagMappings[name] finds on Object.prototype: the lookup
\* gives an object without a handler, and calling mapping.handler throws
inheritedKeys ==
  {<<"c","o","n","s","t","r","u","c","t","o","r">>, <<"t","o","S","t","r","i","n","g">>, <<"t","o","L","o","c","a","l","e","S","t","r","i","n","g">>, <<"v","a","l","u","e","O","f">>, <<"h","a","s","O","w","n","P","r","o","p","e","r","t","y">>, <<"i","s","P","r","o","t","o","t","y","p","e","O","f">>, <<"p","r","o","p","e","r","t","y","I","s","E","n","u","m","e","r","a","b","l","e">>,
   <<"_","_","p","r","o","t","o","_","_">>, <<"_","_","d","e","f","i","n","e","G","e","t","t","e","r","_","_">>, <<"_","_","d","e","f","i","n","e","S","e","t","t","e","r","_","_">>, <<"_","_","l","o","o","k","u","p","G","e","t","t","e","r","_","_">>, <<"_","_","l","o","o","k","u","p","S","e","t","t","e","r","_","_">>}

\* this.flagMappings[cleanFlag]: a mapping of the table, an inherited property, or nothing
Mapping(cleanFlag) == IF cleanFlag \in flagMappings THEN "handler" ELSE IF cleanFlag \in inheritedKeys THEN "inherited" ELSE "none"

\* modifiedArgs of _parseFlag: flagPart at startIndex, valuePart spliced in after it
ModifiedArgs(flag, args, startIndex) ==
  SubSeq(args, 1, startIndex) \o <<Split(flag, "=")[1], Split(flag, "=")[2]>> \o SubSeq(args, startIndex + 2, Len(args))

ParseFlag(flag, args, startIndex, c) ==
  IF Includes(flag, "=")
  THEN IF Mapping(StripDashes(Split(flag, "=")[1])) = "none"
       THEN HandleUnknownFlag(flag, args, startIndex, c)
       ELSE IF Mapping(StripDashes(Split(flag, "=")[1])) = "inherited" THEN Threw(startIndex, c)
       ELSE Handler(StripDashes(Split(flag, "=")[1]), ModifiedArgs(flag, args, startIndex), startIndex, c)
  ELSE IF Mapping(StripDashes(flag)) = "none"
       THEN HandleUnknownFlag(flag, args, startIndex, c)
       ELSE IF Mapping(StripDashes(flag)) = "inherited" THEN Threw(startIndex, c)
       ELSE Handler(StripDashes(flag), args, startIndex, c)

\* ------------------------------------------------------------------- parse
\* the index after the optional 'docker'/'podman' and 'run'
StartIndex(args) ==
  LET i1 == IF At(args, 0) \in {<<"d","o","c","k","e","r">>, <<"p","o","d","m","a","n">>} THEN 1 ELSE 0
  IN IF At(args, i1) = <<"r","u","n">> THEN i1 + 1 ELSE i1

\* TakeImage with the slice taken before the cursor moves past the image
TakeImage_mut(args, i, c) ==
  IF i + 1 < Len(args) THEN setExec(setImage(c, At(args, i)), Join(SubSeq(args, i + 1, Len(args)), <<" ">>))
  ELSE setImage(c, At(args, i))

\* TakeImage still reading a '--name' that follows the image
TakeImage_mut2(args, i, c) ==
  LET taken == IF i + 1 < Len(args) THEN setExec(setImage(c, At(args, i)), Join(SubSeq(args, i + 2, Len(args)), <<" ">>))
               ELSE setImage(c, At(args, i))
  IN IF At(args, i + 1) = <<"-","-","n","a","m","e">> /\ i + 2 < Len(args) THEN setContainerName(taken, At(args, i + 2)) ELSE taken

\* the image branch of the loop: the image, then the rest as exec
TakeImage(args, i, c) ==
  IF i + 1 < Len(args) THEN setExec(setImage(c, At(args, i)), Join(SubSeq(args, i + 2, Len(args)), <<" ">>))
  ELSE setImage(c, At(args, i))

\* the rest of parse from index i: what it returns, or that it threw
RECURSIVE ParseFrom(_, _, _)
ParseFrom(args, i, c) ==
  IF i >= Len(args) THEN [threw |-> FALSE, container |-> c]
  ELSE IF ~StartsWith(At(args, i), <<"-">>) THEN [threw |-> FALSE, container |-> TakeImage(args, i, c)]
  ELSE LET r == ParseFlag(At(args, i), args, i, c)
       IN IF r.threw THEN [threw |-> TRUE, container |-> r.container] ELSE ParseFrom(args, r.nextIndex, r.container)

\* parse(command)
Parse(command) == ParseFrom(TokenizeCommand(command), StartIndex(TokenizeCommand(command)), NewContainer)

\* ------------------------------------------------------------ unit generator
\* QuadletGenerator.escapeValue: a string with whitespace is wrapped in double
\* quotes, its double quotes escaped; anything else passes through
RECURSIVE EscapeQuotes(_)
EscapeQuotes(s) == IF Len(s) = 0 THEN <<>> ELSE (IF s[1] = "\"" THEN <<"\\", "\"">> ELSE <<s[1]>>) \o EscapeQuotes(Tail(s))

\* escapeValue wrapping a value that holds a double quote as well
escapeValue_mut(v) ==
  IF v \in {Null, Undefined} THEN v
  ELSE IF \E k \in 1..Len(v) : v[k] \in Whitespace \cup {"\""} THEN <<"\"">> \o EscapeQuotes(v) \o <<"\"">>
  ELSE v

escapeValue(v) ==
  IF v \in {Null, Undefined} THEN v
  ELSE IF \E k \in 1..Len(v) : v[k] \in Whitespace THEN <<"\"">> \o EscapeQuotes(v) \o <<"\"">>
  ELSE v

\* QuadletGenerator.generateContainerSection: the lines of the section
generateContainerSection(c) ==
  <<<<"[","C","o","n","t","a","i","n","e","r","]">>>>
  \o (IF Truthy(c.image) THEN <<<<"I","m","a","g","e","=">> \o escapeValue(c.image)>> ELSE <<>>)
  \o (IF Truthy(c.containerName) THEN <<<<"C","o","n","t","a","i","n","e","r","N","a","m","e","=">> \o escapeValue(c.containerName)>> ELSE <<>>)
  \o [n \in 1..Len(c.environment) |-> <<"E","n","v","i","r","o","n","m","e","n","t","=">> \o escapeValue(c.environment[n])]
  \o [n \in 1..Len(c.label) |-> <<"L","a","b","e","l","=">> \o escapeValue(c.label[n])]
  \o [n \in 1..Len(c.annotation) |-> <<"A","n","n","o","t","a","t","i","o","n","=">> \o escapeValue(c.annotation[n])]
  \o (IF Truthy(c.exec) THEN <<<<"E","x","e","c","=">> \o c.exec>> ELSE <<>>)
  \o (IF Truthy(c.podmanArgs) THEN <<<<"P","o","d","m","a","n","A","r","g","s","=">> \o c.podmanArgs>> ELSE <<>>)

\* QuadletGenerator.generateUnitSection: the header and one line for each key
generateUnitSection(unit) ==
  <<<<"[","U","n","i","t","]">>>>
  \o (IF "description" \in unit.keys THEN <<<<"D","e","s","c","r","i","p","t","i","o","n","=">> \o unit.description>> ELSE <<>>)
  \o (IF "wants" \in unit.keys /\ Len(unit.wants) > 0 THEN <<<<"W","a","n","t","s","=">> \o Join(unit.wants, <<" ">>)>> ELSE <<>>)
  \o (IF "after" \in unit.keys /\ Len(unit.after) > 0 THEN <<<<"A","f","t","e","r","=">> \o Join(unit.after, <<" ">>)>> ELSE <<>>)

\* QuadletGenerator.generateGlobalArgsSection
generateGlobalArgsSection(globalArgs) ==
  <<<<"[","G","l","o","b","a","l","A","r","g","s","]">>>>
  \o (IF "podmanArgs" \in globalArgs.keys THEN <<<<"P","o","d","m","a","n","A","r","g","s","=">> \o globalArgs.podmanArgs>> ELSE <<>>)

\* QuadletGenerator.generateServiceSection
generateServiceSection(service) ==
  <<<<"[","S","e","r","v","i","c","e","]">>>>
  \o (IF "type" \in service.keys THEN <<<<"T","y","p","e","=">> \o service.type>> ELSE <<>>)
  \o (IF "restart" \in service.keys THEN <<<<"R","e","s","t","a","r","t","=">> \o service.restart>> ELSE <<>>)

\* QuadletGenerator.generateInstallSection
generateInstallSection(install) ==
  <<<<"[","I","n","s","t","a","l","l","]">>>>
  \o (IF "wantedBy" \in install.keys /\ Len(install.wantedBy) > 0 THEN <<<<"W","a","n","t","e","d","B","y","=">> \o Join(install.wantedBy, <<" ">>)>> ELSE <<>>)

\* a section is written whenever its bag is given
OmitEmpty_mut(sectionGiven, section) == IF sectionGiven THEN section ELSE <<>>

\* generateFile: a section of an option bag is written when the bag is given
\* and the section has a line besides its header
OmitEmpty(sectionGiven, section) == IF sectionGiven /\ Len(section) > 1 THEN section ELSE <<>>

\* QuadletGenerator.generateFile with the unit and service bags: the unit
\* section, the container section, the service section
generateFile(c, unitGiven, unit, serviceGiven, service) ==
  OmitEmpty(unitGiven, generateUnitSection(unit))
  \o generateContainerSection(c)
  \o OmitEmpty(serviceGiven, generateServiceSection(service))

\* ------------------------------------------------------------ manifest parser
\* ComposeParser: one entry of security_opt; the parser's test shows
\* 'seccomp=unconfined' in podmanArgs after '--security-opt'
SecurityOptEntry(c, opt) ==
  IF opt = <<"n","o","-","n","e","w","-","p","r","i","v","i","l","e","g","e","s",":","t","r","u","e">> THEN [c EXCEPT !.noNewPrivileges = TRUE]
  ELSE IF opt = <<"l","a","b","e","l","=","d","i","s","a","b","l","e">> THEN [c EXCEPT !.securityLabelDisable = TRUE]
  ELSE AddToPodmanArgs(c, <<"-","-","s","e","c","u","r","i","t","y","-","o","p","t">>, opt)

RECURSIVE SecurityOptEntries(_, _)
SecurityOptEntries(c, opts) ==
  IF Len(opts) = 0 THEN c ELSE SecurityOptEntries(SecurityOptEntry(c, opts[1]), Tail(opts))

\* ComposeParser: the model of one service; a build context gives the
\* placeholder image '<service>.build'
ServiceContainer(service) ==
  SecurityOptEntries([NewContainer EXCEPT !.image = IF Truthy(service.image) THEN service.image ELSE service.name \o <<".","b","u","i","l","d">>,
                                          !.containerName = service.name],
                     service.security_opt)

\* ComposeParser: the error of a service with neither image nor build
ServiceError(service) ==
  IF ~Truthy(service.image) /\ ~Truthy(service.build)
  THEN <<"S","e","r","v","i","c","e"," ","'">> \o service.name \o <<"'"," ","m","u","s","t"," ","h","a","v","e"," ","e","i","t","h","e","r"," ","'","i","m","a","g","e","'"," ","o","r"," ","'","b","u","i","l","d","'">>
  ELSE Null

\* ------------------------------------------------------------ validation
\* a port number of the range 1..65535, written in decimal digits
PortNumber(s) == Len(s) > 0 /\ Len(s) <= 5 /\ AllDigits(s) /\ DigitsValue(s, 0) >= 1 /\ DigitsValue(s, 0) <= 65535

\* a published port 'host:container' with an optional '/tcp' or '/udp'
PortSpecValid(p) ==
  LET q == IF Len(Split(p, "/")) = 2 /\ Split(p, "/")[2] \in {<<"t","c","p">>, <<"u","d","p">>} THEN Split(p, "/")[1] ELSE p
  IN Len(Split(q, ":")) = 2 /\ PortNumber(Split(q, ":")[1]) /\ PortNumber(Split(q, ":")[2])

RECURSIVE PortErrors(_)
PortErrors(ports) ==
  IF Len(ports) = 0 THEN <<>>
  ELSE (IF PortSpecValid(ports[1]) THEN <<>> ELSE <<<<"I","n","v","a","l","i","d"," ","p","o","r","t",":"," ">> \o ports[1]>>) \o PortErrors(Tail(ports))

\* ContainerUtils.validateContainer: the errors of the image and of the ports
validateContainer(c) == (IF ~Truthy(c.image) THEN <<<<"I","m","a","g","e"," ","i","s"," ","r","e","q","u","i","r","e","d">>>> ELSE <<>>) \o PortErrors(c.publishPort)

\* ContainerUtils.normalizeContainer: nothing is said of what it rewrites
normalizeContainer(c) == c

\* ------------------------------------------------------------------ facade
\* an option bag (options.unit, options.service): its keys and their values;
\* the bags live in a heap and are referred to by index, 0 being undefined
EmptyBag == [keys |-> {}, description |-> Undefined, after |-> <<>>, wants |-> <<>>, type |-> Undefined, restart |-> Undefined]

DependencyUnits_mut(dependsOn) == dependsOn

\* container._dependsOn.map(dep => `${dep}.service`)
DependencyUnits(dependsOn) == [n \in 1..Len(dependsOn) |-> dependsOn[n] \o <<".","s","e","r","v","i","c","e">>]

\* the merge done in place, in the caller's bag
UnitConfig_mut(h, unit, dependsOn) ==
  LET h0 == IF unit = 0 THEN Append(h, EmptyBag) ELSE h
      unitConfig == IF unit = 0 THEN Len(h0) ELSE unit
  IN IF Len(dependsOn) > 0
     THEN [heap |-> [h0 EXCEPT ![unitConfig] = [@ EXCEPT !.keys = @ \cup {"after", "wants"},
                                                         !.after = @ \o DependencyUnits(dependsOn),
                                                         !.wants = @ \o DependencyUnits(dependsOn)]],
           ref |-> unitConfig]
     ELSE [heap |-> h0, ref |-> unitConfig]

\* unitConfig of composeToQuadlet: options.unit or a new empty bag, and with
\* dependencies a new bag that copies it and extends after and wants
UnitConfig(h, unit, dependsOn) ==
  LET h0 == IF unit = 0 THEN Append(h, EmptyBag) ELSE h
      unitConfig == IF unit = 0 THEN Len(h0) ELSE unit
  IN IF Len(dependsOn) > 0
     THEN [heap |-> Append(h0, [h0[unitConfig] EXCEPT !.keys = @ \cup {"after", "wants"},
                                                       !.after = @ \o DependencyUnits(dependsOn),
                                                       !.wants = @ \o DependencyUnits(dependsOn)]),
           ref |-> Len(h0) + 1]
     ELSE [heap |-> h0, ref |-> unitConfig]

\* restartMap[container._restart]
restartMap(restart) ==
  CASE restart = <<"n","o">> -> Undefined
    [] restart = <<"a","l","w","a","y","s">> -> <<"a","l","w","a","y","s">>
    [] restart = <<"o","n","-","f","a","i","l","u","r","e">> -> <<"o","n","-","f","a","i","l","u","r","e">>
    [] restart = <<"u","n","l","e","s","s","-","s","t","o","p","p","e","d">> -> <<"a","l","w","a","y","s">>
    [] OTHER -> Undefined

\* the restart value written into the bag that is shared by the services
ServiceConfig_mut(h, service, restart) ==
  LET h0 == IF service = 0 THEN Append(h, EmptyBag) ELSE h
      serviceConfig == IF service = 0 THEN Len(h0) ELSE service
  IN IF Truthy(restart) /\ Truthy(restartMap(restart))
     THEN [heap |-> [h0 EXCEPT ![serviceConfig] = [@ EXCEPT !.keys = @ \cup {"restart"}, !.restart = restartMap(restart)]],
           ref |-> serviceConfig]
     ELSE [heap |-> h0, ref |-> serviceConfig]

\* serviceConfig of composeToQuadlet: options.service or a new empty bag, and
\* with a mapped restart value a new bag that copies it and sets restart
ServiceConfig(h, service, restart) ==
  LET h0 == IF service = 0 THEN Append(h, EmptyBag) ELSE h
      serviceConfig == IF service = 0 THEN Len(h0) ELSE service
  IN IF Truthy(restart) /\ Truthy(restartMap(restart))
     THEN [heap |-> Append(h0, [h0[serviceConfig] EXCEPT !.keys = @ \cup {"restart"}, !.restart = restartMap(restart)]),
           ref |-> Len(h0) + 1]
     ELSE [heap |-> h0, ref |-> serviceConfig]

\* the error thrown by containerToQuadlet with the first error only
ValidationMessage_mut(errs) == <<"C","o","n","t","a","i","n","e","r"," ","v","a","l","i","d","a","t","i","o","n"," ","f","a","i","l","e","d",":"," ">> \o errs[1]

\* the message of the error thrown by containerToQuadlet
ValidationMessage(errs) == <<"C","o","n","t","a","i","n","e","r"," ","v","a","l","i","d","a","t","i","o","n"," ","f","a","i","l","e","d",":"," ">> \o Join(errs, <<","," ">>)

\* ------------------------------------------------------------------ inputs
\* the characters of the command strings
CharPool == {"a", "-", " ", "\"", "'", "\\"}

\* the tokens of the pre-split commands, by family
BasicTokens == {<<"d","o","c","k","e","r">>, <<"p","o","d","m","a","n">>, <<"r","u","n">>, <<"n","g","i","n","x">>, <<"-","-","n","a","m","e">>, <<"w","e","b">>, <<"-","d">>, <<"e","c","h","o">>, <<"-","-","v","a","l","u","e","O","f">>}

EmbeddedTokens == {<<"-","-","n","a","m","e","=","w","e","b">>, <<"-","-","n","a","m","e">>, <<"w","e","b">>, <<"n","g","i","n","x">>, <<"-","u">>, <<"-","-","e","n","v","=","K","=","V">>, <<"-","-","m","e","m","o","r","y","=">>, <<"-","-","r","e","a","d","-","o","n","l","y","=","t","r","u","e">>, <<"-","e">>}

UnknownTokens == {<<"-","-","x">>, <<"-","-","x","=","1">>, <<"n","g","i","n","x">>, <<"n","g","i","n","x",":","l","a","t","e","s","t">>, <<"a","/","b">>, <<"1","2","3","4","5","6","7","m">>, <<"a","/","b","=","c">>, <<"l","o","c","a","l","h","o","s","t",":","5","0","0","0","/","a","p","p">>, <<"a"," ","b">>, <<"a","\"","b">>, <<"a","p","p">>}

SecurityTokens == {<<"-","-","s","e","c","u","r","i","t","y","-","o","p","t">>, <<"n","o","-","n","e","w","-","p","r","i","v","i","l","e","g","e","s",":","t","r","u","e">>, <<"n","o","-","n","e","w","-","p","r","i","v","i","l","e","g","e","s">>, <<"l","a","b","e","l","=","d","i","s","a","b","l","e">>, <<"s","e","c","c","o","m","p","=","p">>, <<"a"," ","b">>, <<"n","g","i","n","x">>}

LifecycleTokens == {<<"-","d">>, <<"-","-","d","e","t","a","c","h">>, <<"-","-","r","m">>, <<"-","-","r","e","s","t","a","r","t">>, <<"a","l","w","a","y","s">>, <<"n","g","i","n","x">>, <<"-","-","x">>, <<"a","p","p">>}

\* repeated flags need one token more than the other families
MultiTokens == {<<"-","p">>, <<"-","-","p","u","b","l","i","s","h">>, <<"-","e">>, <<"1",":","2">>, <<"n","g","i","n","x">>}

TokenPools == {BasicTokens, EmbeddedTokens, UnknownTokens, SecurityTokens, LifecycleTokens}

StringCommand(s) == [kind |-> "string", text |-> s, items |-> <<>>]

ArrayCommand(a) == [kind |-> "array", text |-> <<>>, items |-> a]

\* the commands handed to parse: a string, or a list of tokens of one family
IsCommand(cmd) ==
  \/ \E k \in 0..MaxChars : \E s \in [1..k -> CharPool] : cmd = StringCommand(s)
  \/ \E pool \in TokenPools : \E k \in 0..MaxTokens : \E a \in [1..k -> pool] : cmd = ArrayCommand(a)
  \/ \E k \in 0..(MaxTokens + 1) : \E a \in [1..k -> MultiTokens] : cmd = ArrayCommand(a)

\* the images and names handed to getDefaultName
MaxImage == 5

ImageChars == {"a", "b", "/", ":"}

NamePool == {Null, <<>>, <<"w","e","b">>}

NamedContainers ==
  {[NewContainer EXCEPT !.image = image, !.containerName = name] :
     image \in UNION {[1..n -> ImageChars] : n \in 0..MaxImage}, name \in NamePool}

\* the published ports handed to validation
MaxPorts == 2

PortPool == {<<"1",":","2">>, <<"1",":","2","/","u","d","p">>, <<"1",":","a">>, <<"0",":","2">>, <<"1",":","6","5","5","3","6">>}

PortContainers ==
  {[NewContainer EXCEPT !.image = image, !.publishPort = ports] :
     image \in {<<>>, <<"n","g","i","n","x">>}, ports \in UNION {[1..n -> PortPool] : n \in 0..MaxPorts}}

\* the services the manifest parser returns: the names in the order of the
\* manifest, each container with its _dependsOn and _restart
MaxServices == 2

ServiceNames == <<<<"w","e","b">>, <<"d","b">>, <<"a","p","i">>, <<"j","o","b">>>>

ServiceShapes ==
  [ports : {<<>>}, dependsOn : {<<>>, <<<<"d","b">>, <<"c","a","c","h","e">>>>}, restart : {Undefined, <<"n","o">>, <<"a","l","w","a","y","s">>, <<"o","n","-","f","a","i","l","u","r","e">>, <<"u","n","l","e","s","s","-","s","t","o","p","p","e","d">>}]
  \cup {[ports |-> <<<<"1",":","a">>>>, dependsOn |-> <<>>, restart |-> Undefined]}

IsServices(ss) ==
  \E n \in 0..MaxServices : \E shape \in [1..n -> ServiceShapes] :
    ss = [j \in 1..n |-> [name |-> ServiceNames[j],
                          container |-> [NewContainer EXCEPT !.image = <<"n","g","i","n","x">>, !.publishPort = shape[j].ports],
                          dependsOn |-> shape[j].dependsOn,
                          restart |-> shape[j].restart]]

\* the caller's options: no bag, or one of these
UnitBags ==
  {EmptyBag,
   [EmptyBag EXCEPT !.keys = {"description"}, !.description = <<"d">>],
   [EmptyBag EXCEPT !.keys = {"description", "after", "wants"}, !.description = <<"d">>, !.after = <<<<"n",".","t","a","r","g","e","t">>>>, !.wants = <<<<"t",".","t","a","r","g","e","t">>>>]}

ServiceBags ==
  {[EmptyBag EXCEPT !.keys = {"type"}, !.type = <<"o","n","e","s","h","o","t">>],
   [EmptyBag EXCEPT !.keys = {"restart"}, !.restart = <<"o","n","-","f","a","i","l","u","r","e">>]}

\* the option bags of the GlobalArgs and Install sections
GlobalArgsBags == {[keys |-> {}, podmanArgs |-> Undefined], [keys |-> {"podmanArgs"}, podmanArgs |-> <<"-","-","l","o","g","-","l","e","v","e","l","=","d","e","b","u","g">>]}

InstallBags == {[keys |-> {}, wantedBy |-> <<>>], [keys |-> {"wantedBy"}, wantedBy |-> <<<<"m","u","l","t","i","-","u","s","e","r",".","t","a","r","g","e","t">>, <<"d","e","f","a","u","l","t",".","t","a","r","g","e","t">>>>]}

\* the options of generateFile: for each section whether a bag is given, and the bag
NoOptions ==
  [unitGiven |-> FALSE, unit |-> EmptyBag, globalArgsGiven |-> FALSE, globalArgs |-> [keys |-> {}, podmanArgs |-> Undefined],
   serviceGiven |-> FALSE, service |-> EmptyBag, installGiven |-> FALSE, install |-> [keys |-> {}, wantedBy |-> <<>>]]

GeneratorOptions ==
  {o \in [unitGiven : BOOLEAN, unit : {EmptyBag, [EmptyBag EXCEPT !.keys = {"description"}, !.description = <<"d"," ","e">>]},
          globalArgsGiven : BOOLEAN, globalArgs : GlobalArgsBags,
          serviceGiven : BOOLEAN, service : {EmptyBag} \cup ServiceBags,
          installGiven : BOOLEAN, install : InstallBags] :
     /\ ~o.unitGiven => o.unit = NoOptions.unit
     /\ ~o.globalArgsGiven => o.globalArgs = NoOptions.globalArgs
     /\ ~o.serviceGiven => o.service = NoOptions.service
     /\ ~o.installGiven => o.install = NoOptions.install}

\* the models handed to the generator: an image, and values with and without
\* spaces and double quotes
MaxEntries == 2
EntryPool == {<<"K","=","v">>, <<"K","=","a"," ","b">>, <<"K","=","\"","q","\""," ","b">>, <<"K","=","\"","q","\"">>}

GeneratorContainers ==
  {[NewContainer EXCEPT !.image = <<"n","g","i","n","x">>, !.exec = exec, !.environment = env, !.label = lab, !.annotation = lab] :
     exec \in {Null, <<"s","h"," ","-","c"," ","\"","a"," ","b","\"">>},
     env \in UNION {[1..n -> EntryPool] : n \in 0..MaxEntries},
     lab \in {<<>>, <<<<"d","=","a"," ","b">>>>}}

\* the decoded document of the YAML text 'null'
NoDocument == [kind |-> "null", hasServices |-> FALSE, services |-> <<>>, configs |-> FALSE]

\* the services of a manifest: with an image, with a build context, with
\* neither; without security_opt or with one or two entries
SecurityOptLists ==
  {<<>>, <<<<"n","o","-","n","e","w","-","p","r","i","v","i","l","e","g","e","s",":","t","r","u","e">>>>, <<<<"l","a","b","e","l","=","d","i","s","a","b","l","e">>>>, <<<<"s","e","c","c","o","m","p","=","u","n","c","o","n","f","i","n","e","d">>>>, <<<<"a","p","p","a","r","m","o","r","=","x">>>>,
   <<<<"n","o","-","n","e","w","-","p","r","i","v","i","l","e","g","e","s",":","t","r","u","e">>, <<"s","e","c","c","o","m","p","=","u","n","c","o","n","f","i","n","e","d">>>>, <<<<"a","p","p","a","r","m","o","r","=","x">>, <<"l","a","b","e","l","=","d","i","s","a","b","l","e">>>>}

ManifestShapes ==
  [image : {Undefined, <<"n","g","i","n","x">>}, build : {Undefined}, security_opt : SecurityOptLists]
  \cup [image : {Undefined}, build : {<<".">>}, security_opt : SecurityOptLists]

\* the decoded documents: null, a string, an object without services, an
\* object with services and with or without the top-level key configs
IsDocument(d) ==
  \/ d \in {NoDocument, [NoDocument EXCEPT !.kind = "string"]}
  \/ \E cf \in BOOLEAN : d = [kind |-> "object", hasServices |-> FALSE, services |-> <<>>, configs |-> cf]
  \/ \E n \in 0..MaxServices : \E shape \in [1..n -> ManifestShapes] : \E cf \in BOOLEAN :
       d = [kind |-> "object", hasServices |-> TRUE, configs |-> cf,
            services |-> [j \in 1..n |-> [name |-> ServiceNames[j], image |-> shape[j].image,
                                          build |-> shape[j].build, security_opt |-> shape[j].security_opt]]]

\* the call in progress of containerToQuadlet(container, options)
NoCall == [container |-> NewContainer, name |-> Undefined, unit |-> 0, service |-> 0]

\* ----------------------------------------------------------- state machine
VARIABLES command, tk, pos, args, i, container, pc

\* the facade: the entry point called, the position in it, the caller's
\* options and their value before the call, the heap of option bags, the
\* services and the number of them handled, the call of containerToQuadlet in progress,
\* the validation errors, the collaborators called so far, the arguments the
\* generator was given, the pairs collected, the error thrown, the value returned
VARIABLES mode, fpc, options, given, heap, services, svc, cur, errors, log, generated, results, message, ret

pvars == <<command, tk, pos, args, i, container, pc>>

VARIABLES gc, gopts, gtext, gpc
VARIABLES doc, mpc, msvc, mresult, merror
VARIABLES earlier
fvars == <<mode, fpc, options, given, heap, services, svc, cur, errors, log, generated, results, message, ret>>

\* the state of one call of the generator, of one call of the manifest parser,
\* and the results of the earlier calls of parse
gvars == <<gc, gopts, gtext, gpc>>
mvars == <<doc, mpc, msvc, mresult, merror>>
xvars == <<gvars, mvars, earlier>>
vars == <<pvars, fvars, xvars>>

\* the facade before any call
\* no generator call and no manifest parse in progress
GeneratorIdle == gc = NewContainer /\ gopts = NoOptions /\ gtext = <<>> /\ gpc = "idle"

ManifestIdle == doc = NoDocument /\ mpc = "idle" /\ msvc = 0 /\ mresult = <<>> /\ merror = Null

FacadeIdle ==
  /\ fpc = "idle" /\ options = [unit |-> 0, service |-> 0] /\ given = <<>> /\ heap = <<>>
  /\ services = <<>> /\ svc = 0 /\ cur = NoCall /\ errors = <<>> /\ log = <<>>
  /\ generated = <<>> /\ results = <<>> /\ message = Null /\ ret = Undefined

Init ==
  /\ mode = "parse" /\ FacadeIdle /\ GeneratorIdle /\ ManifestIdle /\ earlier = <<>>
  /\ IsCommand(command)
  /\ tk = TokInit
  /\ pos = 0
  /\ args = <<>>
  /\ i = 0
  /\ container = NewContainer
  /\ pc = "tokenize"

\* _tokenizeCommand: an array is returned as it is
TokenizeArray ==
  /\ pc = "tokenize" /\ command.kind = "array"
  /\ args' = command.items
  /\ pc' = "skip"
  /\ UNCHANGED <<command, tk, pos, i, container, fvars, xvars>>

\* _tokenizeCommand: one character of the string
TokenizeChar ==
  /\ pc = "tokenize" /\ command.kind = "string" /\ pos < Len(command.text)
  /\ tk' = TokStep(tk, command.text[pos + 1])
  /\ pos' = pos + 1
  /\ UNCHANGED <<command, args, i, container, pc, fvars, xvars>>

\* _tokenizeCommand: the end of the string
TokenizeEnd ==
  /\ pc = "tokenize" /\ command.kind = "string" /\ pos = Len(command.text)
  /\ args' = TokFinish(tk)
  /\ pc' = "skip"
  /\ UNCHANGED <<command, tk, pos, i, container, fvars, xvars>>

\* parse: skip 'docker'/'podman' and 'run'
SkipPrefix ==
  /\ pc = "skip"
  /\ i' = StartIndex(args)
  /\ pc' = "loop"
  /\ UNCHANGED <<command, tk, pos, args, container, fvars, xvars>>

\* parse: the loop reaches a token that does not start with '-'
ImageStep ==
  /\ pc = "loop" /\ i < Len(args) /\ ~StartsWith(At(args, i), <<"-">>)
  /\ container' = TakeImage(args, i, container)
  /\ i' = i + 1
  /\ pc' = "done"
  /\ UNCHANGED <<command, tk, pos, args, fvars, xvars>>

\* parse: the loop reaches a flag; the handler may throw a TypeError
FlagStep ==
  /\ pc = "loop" /\ i < Len(args) /\ StartsWith(At(args, i), <<"-">>)
  /\ LET r == ParseFlag(At(args, i), args, i, container)
     IN /\ container' = r.container
        /\ i' = r.nextIndex
        /\ pc' = IF r.threw THEN "threw" ELSE "loop"
  /\ UNCHANGED <<command, tk, pos, args, fvars, xvars>>

\* parse: the loop ends without an image
Return ==
  /\ pc = "loop" /\ i >= Len(args)
  /\ pc' = "done"
  /\ UNCHANGED <<command, tk, pos, args, i, container, fvars, xvars>>

Next == TokenizeArray \/ TokenizeChar \/ TokenizeEnd \/ SkipPrefix \/ ImageStep \/ FlagStep \/ Return

Spec == Init /\ [][Next]_vars

\* ---------------------------------------------------- facade state machine
\* the parser while the facade runs
ParserIdle ==
  /\ command = ArrayCommand(<<>>) /\ tk = TokInit /\ pos = 0 /\ args = <<>> /\ i = 0
  /\ container = NewContainer /\ pc = "idle"

\* a call of composeToQuadlet(yaml, options), of containerToQuadlet(container,
\* options), or of a method of a Container
FacadeInit ==
  /\ ParserIdle /\ GeneratorIdle /\ ManifestIdle /\ earlier = <<>>
  /\ svc = 0 /\ errors = <<>> /\ log = <<>> /\ generated = <<>> /\ results = <<>> /\ message = Null /\ ret = Undefined
  /\ \E unit \in {<<>>} \cup {<<b>> : b \in UnitBags} : \E service \in {<<>>} \cup {<<b>> : b \in ServiceBags} :
       /\ heap = unit \o service
       /\ options = [unit |-> IF unit = <<>> THEN 0 ELSE 1, service |-> IF service = <<>> THEN 0 ELSE Len(unit) + 1]
       /\ given = unit \o service
       /\ \/ /\ mode = "compose" /\ fpc = "loop" /\ cur = NoCall
             /\ IsServices(services)
          \/ /\ mode = "container" /\ fpc = "validate" /\ services = <<>>
             /\ \E c \in PortContainers :
                  cur = [NoCall EXCEPT !.container = c, !.unit = options.unit, !.service = options.service]
          \/ /\ mode = "method" /\ fpc = "method" /\ services = <<>> /\ unit = <<>> /\ service = <<>>
             /\ \E c \in NamedContainers \cup PortContainers : cur = [NoCall EXCEPT !.container = c]

\* composeToQuadlet: one turn of the loop, up to the call of containerToQuadlet
ComposeService ==
  /\ mode = "compose" /\ fpc = "loop" /\ svc < Len(services)
  /\ LET service == services[svc + 1]
         u == UnitConfig(heap, options.unit, service.dependsOn)
         s == ServiceConfig(u.heap, options.service, service.restart)
     IN /\ heap' = s.heap
        /\ cur' = [container |-> service.container, name |-> service.name,
                   unit |-> IF s.heap[u.ref].keys # {} THEN u.ref ELSE options.unit,
                   service |-> IF s.heap[s.ref].keys # {} THEN s.ref ELSE options.service]
  /\ fpc' = "validate"
  /\ UNCHANGED <<pvars, xvars, mode, options, given, services, svc, errors, log, generated, results, message, ret>>

\* the loop left after the first service
ComposeReturn_mut ==
  /\ mode = "compose" /\ fpc = "loop" /\ (svc = Len(services) \/ svc = 1)
  /\ fpc' = "returned"
  /\ UNCHANGED <<pvars, xvars, mode, options, given, heap, services, svc, cur, errors, log, generated, results, message, ret>>

\* composeToQuadlet: the loop is over, results is returned
ComposeReturn ==
  /\ mode = "compose" /\ fpc = "loop" /\ svc = Len(services)
  /\ fpc' = "returned"
  /\ UNCHANGED <<pvars, xvars, mode, options, given, heap, services, svc, cur, errors, log, generated, results, message, ret>>

\* containerToQuadlet: validateContainer, and the throw when there are errors
\* (composeToQuadlet does not catch it)
Validate ==
  /\ fpc = "validate"
  /\ errors' = validateContainer(cur.container)
  /\ log' = Append(log, "validate")
  /\ IF Len(errors') > 0
     THEN fpc' = "threw" /\ message' = ValidationMessage(errors')
     ELSE fpc' = "normalize" /\ message' = message
  /\ UNCHANGED <<pvars, xvars, mode, options, given, heap, services, svc, cur, generated, results, ret>>

\* containerToQuadlet: normalizeContainer
Normalize ==
  /\ fpc = "normalize"
  /\ cur' = [cur EXCEPT !.container = normalizeContainer(@)]
  /\ log' = Append(log, "normalize")
  /\ fpc' = "generate"
  /\ UNCHANGED <<pvars, xvars, mode, options, given, heap, services, svc, errors, generated, results, message, ret>>

\* containerToQuadlet: generateFile and the return; in composeToQuadlet the
\* text is stored under the service name
Generate ==
  /\ fpc = "generate"
  /\ LET unit == IF cur.unit = 0 THEN EmptyBag ELSE heap[cur.unit]
         service == IF cur.service = 0 THEN EmptyBag ELSE heap[cur.service]
         text == generateFile(cur.container, cur.unit # 0, unit, cur.service # 0, service)
     IN /\ generated' = Append(generated, [name |-> cur.name, container |-> cur.container,
                                           unitGiven |-> cur.unit # 0, unit |-> unit,
                                           serviceGiven |-> cur.service # 0, service |-> service])
        /\ IF mode = "compose"
           THEN results' = Append(results, <<cur.name, text>>) /\ svc' = svc + 1 /\ fpc' = "loop" /\ ret' = ret
           ELSE results' = results /\ svc' = svc /\ fpc' = "returned" /\ ret' = text
  /\ log' = Append(log, "generate")
  /\ UNCHANGED <<pvars, xvars, mode, options, given, heap, services, cur, errors, message>>

\* container.getDefaultName()
GetDefaultName ==
  /\ fpc = "method"
  /\ ret' = getDefaultName(cur.container)
  /\ fpc' = "named"
  /\ UNCHANGED <<pvars, xvars, mode, options, given, heap, services, svc, cur, errors, log, generated, results, message>>

\* container.validate()
ValidateMethod ==
  /\ fpc = "method"
  /\ errors' = validate(cur.container)
  /\ fpc' = "validated"
  /\ UNCHANGED <<pvars, xvars, mode, options, given, heap, services, svc, cur, log, generated, results, message, ret>>

FacadeNext == ComposeService \/ ComposeReturn \/ Validate \/ Normalize \/ Generate \/ GetDefaultName \/ ValidateMethod

FacadeSpec == FacadeInit /\ [][FacadeNext]_vars

\* ------------------------------------------------------------ parse, again
\* the commands of the successive calls of parse on one DockerRunParser
MaxCalls == 2

RepeatCommands ==
  {ArrayCommand(<<<<"-","p">>, <<"1",":","2">>, <<"n","g","i","n","x">>>>), ArrayCommand(<<<<"-","-","n","a","m","e","=","w","e","b">>, <<"n","g","i","n","x">>, <<"e","c","h","o">>>>),
   ArrayCommand(<<<<"-","e">>, <<"K","=","V">>, <<"-","-","x">>, <<"y">>>>), ArrayCommand(<<<<"-","-","x","=","1">>, <<"-","e">>, <<"K","=","V">>>>), ArrayCommand(<<<<"-","u">>>>),
   StringCommand(<<"-","d"," ","a">>), StringCommand(<<"a"," ","b">>), StringCommand(<<"-","l"," ","x">>)}

RepeatInit ==
  /\ mode = "parse" /\ FacadeIdle /\ GeneratorIdle /\ ManifestIdle /\ earlier = <<>>
  /\ command \in RepeatCommands
  /\ tk = TokInit /\ pos = 0 /\ args = <<>> /\ i = 0 /\ container = NewContainer /\ pc = "tokenize"

\* the next call goes on with the model of the call before
ParseAgain_mut ==
  /\ pc \in {"done", "threw"} /\ Len(earlier) + 1 < MaxCalls
  /\ earlier' = Append(earlier, [command |-> command, threw |-> pc = "threw", container |-> container])
  /\ command' \in RepeatCommands
  /\ tk' = TokInit /\ pos' = 0 /\ args' = <<>> /\ i' = 0 /\ pc' = "tokenize"
  /\ UNCHANGED <<fvars, gvars, mvars, container>>

\* parse has returned or thrown and the caller keeps the result; the next
\* call of parse starts with its own command, tokens and new Container()
ParseAgain ==
  /\ pc \in {"done", "threw"} /\ Len(earlier) + 1 < MaxCalls
  /\ earlier' = Append(earlier, [command |-> command, threw |-> pc = "threw", container |-> container])
  /\ command' \in RepeatCommands
  /\ tk' = TokInit /\ pos' = 0 /\ args' = <<>> /\ i' = 0 /\ container' = NewContainer /\ pc' = "tokenize"
  /\ UNCHANGED <<fvars, gvars, mvars>>

RepeatNext == Next \/ ParseAgain

RepeatSpec == RepeatInit /\ [][RepeatNext]_vars

\* ------------------------------------------------------------ generateFile
\* one call of QuadletGenerator.generateFile(container, options), section by section
GeneratorInit ==
  /\ mode = "generate" /\ ParserIdle /\ FacadeIdle /\ ManifestIdle /\ earlier = <<>>
  /\ gc \in GeneratorContainers
  /\ gopts \in GeneratorOptions
  /\ gtext = <<>>
  /\ gpc = "unit"

EmitUnit ==
  /\ gpc = "unit"
  /\ gtext' = gtext \o OmitEmpty(gopts.unitGiven, generateUnitSection(gopts.unit))
  /\ gpc' = "container"
  /\ UNCHANGED <<pvars, fvars, mvars, earlier, gc, gopts>>

EmitContainer ==
  /\ gpc = "container"
  /\ gtext' = gtext \o generateContainerSection(gc)
  /\ gpc' = "globalArgs"
  /\ UNCHANGED <<pvars, fvars, mvars, earlier, gc, gopts>>

EmitGlobalArgs ==
  /\ gpc = "globalArgs"
  /\ gtext' = gtext \o OmitEmpty(gopts.globalArgsGiven, generateGlobalArgsSection(gopts.globalArgs))
  /\ gpc' = "service"
  /\ UNCHANGED <<pvars, fvars, mvars, earlier, gc, gopts>>

EmitService ==
  /\ gpc = "service"
  /\ gtext' = gtext \o OmitEmpty(gopts.serviceGiven, generateServiceSection(gopts.service))
  /\ gpc' = "install"
  /\ UNCHANGED <<pvars, fvars, mvars, earlier, gc, gopts>>

EmitInstall ==
  /\ gpc = "install"
  /\ gtext' = gtext \o OmitEmpty(gopts.installGiven, generateInstallSection(gopts.install))
  /\ gpc' = "done"
  /\ UNCHANGED <<pvars, fvars, mvars, earlier, gc, gopts>>

GeneratorNext == EmitUnit \/ EmitContainer \/ EmitGlobalArgs \/ EmitService \/ EmitInstall

GeneratorSpec == GeneratorInit /\ [][GeneratorNext]_vars

\* ------------------------------------------------------------ ComposeParser.parse
ManifestInit ==
  /\ mode = "manifest" /\ ParserIdle /\ FacadeIdle /\ GeneratorIdle /\ earlier = <<>>
  /\ IsDocument(doc)
  /\ mpc = "decode" /\ msvc = 0 /\ mresult = <<>> /\ merror = Null

\* the document is an object with a non-empty services mapping, or parse throws
CheckDocument ==
  /\ mpc = "decode"
  /\ IF doc.kind # "object" THEN mpc' = "threw" /\ merror' = <<"I","n","v","a","l","i","d"," ","c","o","m","p","o","s","e"," ","f","i","l","e"," ","f","o","r","m","a","t">>
     ELSE IF ~doc.hasServices \/ Len(doc.services) = 0
     THEN mpc' = "threw" /\ merror' = <<"C","o","m","p","o","s","e"," ","f","i","l","e"," ","m","u","s","t"," ","c","o","n","t","a","i","n"," ","a","t"," ","l","e","a","s","t"," ","o","n","e"," ","s","e","r","v","i","c","e">>
     ELSE mpc' = "services" /\ merror' = merror
  /\ UNCHANGED <<pvars, fvars, gvars, earlier, doc, msvc, mresult>>

\* an unsupported top-level key: parse throws, whatever was built is dropped
CheckFeatures ==
  /\ mpc = "services" /\ doc.configs
  /\ mpc' = "threw" /\ merror' = <<"C","o","m","p","o","s","e"," ","f","e","a","t","u","r","e"," ","'","c","o","n","f","i","g","s","'"," ","i","s"," ","n","o","t"," ","y","e","t"," ","s","u","p","p","o","r","t","e","d">>
  /\ UNCHANGED <<pvars, fvars, gvars, earlier, doc, msvc, mresult>>

\* a service without image and build is passed over
ParseService_mut ==
  /\ mpc = "services" /\ msvc < Len(doc.services)
  /\ LET service == doc.services[msvc + 1] IN
     IF ServiceError(service) # Null THEN mresult' = mresult
     ELSE mresult' = Append(mresult, <<service.name, ServiceContainer(service)>>)
  /\ msvc' = msvc + 1
  /\ UNCHANGED <<pvars, fvars, gvars, earlier, doc, mpc, merror>>

\* the next service: its model is added to the result, or parse throws
ParseService ==
  /\ mpc = "services" /\ msvc < Len(doc.services)
  /\ LET service == doc.services[msvc + 1] IN
     IF ServiceError(service) # Null
     THEN mpc' = "threw" /\ merror' = ServiceError(service) /\ mresult' = mresult /\ msvc' = msvc
     ELSE mpc' = mpc /\ merror' = merror /\ mresult' = Append(mresult, <<service.name, ServiceContainer(service)>>) /\ msvc' = msvc + 1
  /\ UNCHANGED <<pvars, fvars, gvars, earlier, doc>>

\* every service is parsed and no key is unsupported: the result is returned
ManifestReturn ==
  /\ mpc = "services" /\ msvc = Len(doc.services) /\ ~doc.configs
  /\ mpc' = "returned"
  /\ UNCHANGED <<pvars, fvars, gvars, earlier, doc, msvc, mresult, merror>>

ManifestNext == CheckDocument \/ CheckFeatures \/ ParseService \/ ManifestReturn

ManifestSpec == ManifestInit /\ [][ManifestNext]_vars

\* ================================================================== claims

\* C1: parse never raises an error: whatever the command, it returns a
\* Container (the parse never ends in a thrown TypeError).
C1_ParseNeverThrows == pc # "threw"

\* C2: after the optional 'docker'/'podman' and the optional 'run', the first
\* token at the cursor that does not start with '-' becomes the image, all
\* the tokens after it (flags included) joined by single spaces become exec,
\* the parse stops, and exec stays null when no token follows the image.
C2_ImageThenExec ==
  [][/\ pc = "skip" =>
          i' = (IF Len(args) >= 1 /\ args[1] \in {<<"d","o","c","k","e","r">>, <<"p","o","d","m","a","n">>} THEN 1 ELSE 0)
               + (IF \/ (Len(args) >= 1 /\ args[1] = <<"r","u","n">>)
                     \/ (Len(args) >= 2 /\ args[1] \in {<<"d","o","c","k","e","r">>, <<"p","o","d","m","a","n">>} /\ args[2] = <<"r","u","n">>) THEN 1 ELSE 0)
     /\ (pc = "loop" /\ i < Len(args) /\ (Len(args[i + 1]) = 0 \/ args[i + 1][1] # "-")) =>
          /\ pc' = "done"
          /\ container'.image = args[i + 1]
          /\ container'.exec = IF i + 1 = Len(args) THEN Null ELSE Join(SubSeq(args, i + 2, Len(args)), <<" ">>)
          /\ \A k \in (i + 2)..Len(args) : \E a, b \in 0..Len(container'.exec) : SubSeq(container'.exec, a + 1, b) = args[k]
    ]_vars

C2_Witness == pc = "done" /\ args = <<<<"d","o","c","k","e","r">>, <<"n","g","i","n","x">>, <<"-","d">>>> /\ container.image = <<"n","g","i","n","x">> /\ container.exec = <<"-","d">>

\* the flags whose handler takes the following token as the value
ValueFlags == flagMappings \ {<<"r","e","a","d","-","o","n","l","y">>, <<"t">>, <<"t","t","y">>, <<"i">>, <<"i","n","t","e","r","a","c","t","i","v","e">>, <<"d">>, <<"d","e","t","a","c","h">>, <<"r","m">>, <<"i","n","i","t">>}

\* the token is --F=V for a known value-taking F and a V without '='
IsEmbeddedValueFlag(tok) ==
  /\ StartsWith(tok, <<"-">>) /\ Includes(tok, "=")
  /\ Len(Split(tok, "=")) = 2
  /\ StripDashes(Split(tok, "=")[1]) \in ValueFlags

\* C3: with a known value-taking flag written --F=V (V without '=') at the
\* cursor, the parse gives the same model as with the two tokens --F, V in
\* its place: every token that follows is still processed.
C3_EmbeddedSameAsTwoTokens ==
  (pc = "loop" /\ i < Len(args) /\ IsEmbeddedValueFlag(At(args, i))) =>
     ParseFrom(args, i, container) = ParseFrom(ModifiedArgs(At(args, i), args, i), i, container)

\* the number of lines of the text that equal l
CountLines(lines, l) == Cardinality({k \in 1..Len(lines) : lines[k] = l})

\* the token is a spelling of the name flag, with or without '=value'
IsNameFlag(tok) == StartsWith(tok, <<"-">>) /\ StripDashes(Split(tok, "=")[1]) = <<"n","a","m","e">>

\* a non-empty string without whitespace and without double quote
PlainValue(v) == v \notin {Null, Undefined, <<>>} /\ \A k \in 1..Len(v) : v[k] \notin (Whitespace \cup {"\""})

UnknownFlagBeforeToken ==
  /\ pc = "loop" /\ i + 1 < Len(args)
  /\ StartsWith(At(args, i), <<"-">>) /\ ~Includes(At(args, i), "=")
  /\ Mapping(StripDashes(At(args, i))) = "none"
  /\ ~StartsWith(At(args, i + 1), <<"-">>)

\* the flag is passed through alone and the next token becomes the image
NextTokenIsImage ==
  /\ i' = i + 1 /\ pc' = "loop"
  /\ container'.podmanArgs = (IF container.podmanArgs = Null THEN <<>> ELSE container.podmanArgs \o <<" ">>) \o At(args, i)
  /\ ~ParseFrom(args, i', container').threw
  /\ ParseFrom(args, i', container').container.image = At(args, i + 1)
  /\ ParseFrom(args, i', container').container.podmanArgs = container'.podmanArgs
  /\ ParseFrom(args, i', container').container.exec = IF i + 2 < Len(args) THEN Join(SubSeq(args, i + 3, Len(args)), <<" ">>) ELSE Null

\* a name with a ':tag' suffix
HasTagSuffix(t) == \E k \in 2..(Len(t) - 1) : t[k] = ":"

SizeLike(t) ==
  \E n \in 1..Len(t) : /\ \A k \in 1..n : t[k] \in Digits
                       /\ (n = Len(t) \/ (n = Len(t) - 1 /\ t[Len(t)] \in {"k","m","g","t","K","M","G","T"}))

\* a bare 'key:' prefix
KeyPrefixed(t) ==
  \E k \in 2..Len(t) : t[k] = ":" /\ t[1] \in LowerLetters /\ \A j \in 2..(k - 1) : t[j] \in (LowerLetters \cup Digits)

\* C6: an unknown flag without '=' followed by a token that does not start
\* with '-' and contains '=', or is digits with an optional size suffix, or
\* begins with a 'key:' prefix, takes that token as its value: the cursor
\* advances by two, the token (escaped) follows the flag in podmanArgs, and
\* the token is not taken as the image.
C6_ClearValueConsumed ==
  [][(UnknownFlagBeforeToken /\ (Includes(At(args, i + 1), "=") \/ SizeLike(At(args, i + 1)) \/ KeyPrefixed(At(args, i + 1))))
       => /\ i' = i + 2 /\ pc' = "loop"
          /\ container'.podmanArgs = (IF container.podmanArgs = Null THEN <<>> ELSE container.podmanArgs \o <<" ">>)
                                     \o At(args, i) \o <<" ">> \o EscapeArg(At(args, i + 1))
          /\ container'.image = <<>>
          /\ ParseFrom(args, i', container').threw \/ ParseFrom(args, i', container').container.image # At(args, i + 1)
                \/ \E k \in (i + 2)..(Len(args) - 1) : At(args, k) = At(args, i + 1)
    ]_vars

C6_Witness ==
  /\ pc = "done" /\ args = <<<<"-","-","x">>, <<"a","/","b","=","c">>, <<"n","g","i","n","x">>>>
  /\ container.image = <<"n","g","i","n","x">> /\ container.podmanArgs = <<"-","-","x"," ","a","/","b","=","c">>

\* the cursor is on an unknown flag, with or without an embedded '='
UnknownFlagAtCursor ==
  /\ pc = "loop" /\ i < Len(args) /\ StartsWith(At(args, i), <<"-">>)
  /\ Mapping(StripDashes(Split(At(args, i), "=")[1])) = "none"

\* t with a backslash put before every double quote and backslash
RECURSIVE Backslashed(_)
Backslashed(t) ==
  IF t = <<>> THEN <<>>
  ELSE IF t[1] = "\"" THEN <<"\\", "\"">> \o Backslashed(Tail(t))
  ELSE IF t[1] = "\\" THEN <<"\\", "\\">> \o Backslashed(Tail(t))
  ELSE <<t[1]>> \o Backslashed(Tail(t))

\* the escaped form of a value: quoted if and only if it holds whitespace or
\* one of " ' ` $ \ | & ; ( ) < >
EscapedForm(t) ==
  IF \E k \in 1..Len(t) : t[k] \in {" ", "\t", "\n", "\r", "\f", "\"", "'", Backquote, "$", "\\", "|", "&", ";", "(", ")", "<", ">"}
  THEN <<"\"">> \o Backslashed(t) \o <<"\"">>
  ELSE t

\* C7: an unknown flag is appended verbatim to podmanArgs after exactly one
\* space when podmanArgs has content; with an embedded '=' it consumes one
\* token; a following token consumed as its value is appended after one space,
\* in double quotes with every " and \ backslash-escaped if and only if it
\* holds whitespace or a shell-special character, and unchanged otherwise.
C7_UnknownFlagAppended ==
  [][UnknownFlagAtCursor =>
       LET withFlag == (IF container.podmanArgs = Null THEN <<>> ELSE container.podmanArgs \o <<" ">>) \o At(args, i)
       IN /\ pc' = "loop" /\ i' \in {i + 1, i + 2}
          /\ Includes(At(args, i), "=") => i' = i + 1
          /\ i' = i + 1 => container'.podmanArgs = withFlag
          /\ i' = i + 2 => container'.podmanArgs = withFlag \o <<" ">> \o EscapedForm(At(args, i + 1))
          /\ \A f \in (DOMAIN container) \ {"podmanArgs"} : container'[f] = container[f]
    ]_vars

C7_Witness ==
  /\ pc = "done" /\ args = <<<<"-","-","x","=","1">>, <<"-","-","x">>, <<"a","\"","b">>>>
  /\ container.podmanArgs = <<"-","-","x","=","1"," ","-","-","x"," ","\"","a","\\","\"","b","\"">>

\* the flag as the handlers of the passthrough flags spell it
HandlerSpelling(name) == IF Len(name) = 1 THEN <<"-">> \o name ELSE <<"-", "-">> \o name

\* the tokens a flag step appends to podmanArgs: the unknown flag and the value
\* it consumed, or the passthrough flag and its value
AppendedTokens ==
  IF UnknownFlagAtCursor THEN SubSeq(args, i + 1, i')
  ELSE LET flag == At(args, i)
           name == StripDashes(Split(flag, "=")[1])
           eff == IF Includes(flag, "=") THEN ModifiedArgs(flag, args, i) ELSE args
       IN IF i' = i + 2 /\ At(eff, i + 1) # Undefined THEN <<HandlerSpelling(name), At(eff, i + 1)>> ELSE <<HandlerSpelling(name)>>

\* C8: podmanArgs is a single-space join of individually escaped tokens:
\* tokenizing it returns exactly the flag and value tokens that were appended,
\* in the order they were appended.
C8_PodmanArgsTokenizeBack ==
  [][(pc = "loop" /\ pc' = "loop" /\ container'.podmanArgs # container.podmanArgs) =>
       TokenizeString(container'.podmanArgs)
         = (IF container.podmanArgs = Null THEN <<>> ELSE TokenizeString(container.podmanArgs)) \o AppendedTokens
    ]_vars

\* the non-whitespace runs of s, in order
FieldStarts(s) == {k \in 1..Len(s) : s[k] \notin Whitespace /\ (k = 1 \/ s[k - 1] \in Whitespace)}

FieldFrom(s, k) == SubSeq(s, k, CHOOSE e \in k..Len(s) : (\A j \in k..e : s[j] \notin Whitespace) /\ (e = Len(s) \/ s[e + 1] \in Whitespace))

Fields(s) == [n \in 1..Cardinality(FieldStarts(s)) |-> FieldFrom(s, CHOOSE k \in FieldStarts(s) : Cardinality({j \in FieldStarts(s) : j < k}) = n - 1)]

\* C9: the tokenizer splits a string on unquoted whitespace, takes a span
\* opened by " or ' as literal text that only the same quote character closes,
\* and never emits an empty token (no token at all for an empty or
\* whitespace-only string).
C9_TokensNeverEmpty ==
  (pc # "tokenize" /\ command.kind = "string") =>
    LET s == command.text IN
    /\ \A k \in 1..Len(args) : Len(args[k]) >= 1
    /\ (\A k \in 1..Len(s) : s[k] \in Whitespace) => args = <<>>
    /\ (\A k \in 1..Len(s) : s[k] \notin {"\"", "'", "\\"}) => args = Fields(s)
    /\ \A q \in {"\"", "'"} :
         (/\ Len(s) >= 3 /\ s[1] = q /\ s[Len(s)] = q
          /\ \A k \in 2..(Len(s) - 1) : s[k] \notin {q, "\\"})
         => args = <<SubSeq(s, 2, Len(s) - 1)>>

C9_Witness ==
  /\ pc = "done" /\ command.kind = "string"
  /\ command.text = <<"'", " ", "\"", "'">>
  /\ args = <<<<" ", "\"">>>>

\* the position of the quote that is still open at the end of s
OpenQuotePos(s) ==
  CHOOSE q \in 1..Len(s) : /\ ~TokAfter(s, q - 1).inQuotes
                           /\ \A j \in q..Len(s) : TokAfter(s, j).inQuotes

\* r without its escaping backslashes
RECURSIVE DropEscapes(_)
DropEscapes(r) ==
  IF r = <<>> THEN <<>>
  ELSE IF r[1] = "\\" THEN (IF Len(r) >= 2 THEN <<r[2]>> \o DropEscapes(SubSeq(r, 3, Len(r))) ELSE <<>>)
  ELSE <<r[1]>> \o DropEscapes(Tail(r))

\* C10 as stated: with a quote still open at the end of the string, the token
\* in progress absorbs every remaining character (whitespace included) and is
\* emitted as the last token.
C10_OpenQuoteAbsorbsAll ==
  (pc # "tokenize" /\ command.kind = "string" /\ tk.inQuotes) =>
    LET s == command.text
        q == OpenQuotePos(s)
    IN args = TokAfter(s, q).args \o <<TokAfter(s, q).current \o SubSeq(s, q + 1, Len(s))>>

\* C10 as amended: with a quote still open at the end of the string, no error
\* is signalled; the token in progress absorbs every remaining character
\* except the escaping backslashes (whitespace and the other quote character
\* included) and is emitted as the last token unless it is empty.
C10_OpenQuoteAbsorbsRest ==
  (pc # "tokenize" /\ command.kind = "string" /\ tk.inQuotes) =>
    LET s == command.text
        q == OpenQuotePos(s)
        tok == TokAfter(s, q).current \o DropEscapes(SubSeq(s, q + 1, Len(s)))
    IN args = TokAfter(s, q).args \o (IF tok = <<>> THEN <<>> ELSE <<tok>>)

C10_Witness ==
  /\ pc = "done" /\ command.kind = "string"
  /\ command.text = <<"a", "\"", " ", "'">>
  /\ args = <<<<"a", " ", "'">>>>

\* the cursor is on '--security-opt' and a token V follows it
SecurityOptAtCursor == pc = "loop" /\ i + 1 < Len(args) /\ At(args, i) = <<"-","-","s","e","c","u","r","i","t","y","-","o","p","t">>

\* C11: each '--security-opt V' has exactly one effect: V equal to
\* 'no-new-privileges:true' sets noNewPrivileges; V starting with
\* 'label=disable' sets securityLabelDisable; V starting with 'seccomp=' sets
\* seccompProfile to the text after that prefix; any other V is appended to
\* podmanArgs as '--security-opt V' (V escaped) and no other field changes.
C11_SecurityOptOneEffect ==
  [][SecurityOptAtCursor =>
       LET V == At(args, i + 1)
           before == IF container.podmanArgs = Null THEN <<>> ELSE container.podmanArgs \o <<" ">>
       IN /\ pc' = "loop" /\ i' = i + 2
          /\ container' =
               IF V = <<"n","o","-","n","e","w","-","p","r","i","v","i","l","e","g","e","s",":","t","r","u","e">> THEN [container EXCEPT !.noNewPrivileges = TRUE]
               ELSE IF Len(V) >= 13 /\ SubSeq(V, 1, 13) = <<"l","a","b","e","l","=","d","i","s","a","b","l","e">> THEN [container EXCEPT !.securityLabelDisable = TRUE]
               ELSE IF Len(V) >= 8 /\ SubSeq(V, 1, 8) = <<"s","e","c","c","o","m","p","=">> THEN [container EXCEPT !.seccompProfile = SubSeq(V, 9, Len(V))]
               ELSE [container EXCEPT !.podmanArgs = before \o <<"-","-","s","e","c","u","r","i","t","y","-","o","p","t"," ">> \o EscapedForm(V)]
    ]_vars

C11_Witness ==
  /\ pc = "done" /\ args = <<<<"-","-","s","e","c","u","r","i","t","y","-","o","p","t">>, <<"s","e","c","c","o","m","p","=","p">>, <<"n","g","i","n","x">>>>
  /\ container.seccompProfile = <<"p">> /\ container.podmanArgs = Null /\ container.image = <<"n","g","i","n","x">>

\* the lifecycle flags of one token
IgnoredFlags == {<<"-","d">>, <<"-","-","d","e","t","a","c","h">>, <<"-","-","r","m">>}

\* args without the n tokens from index k (0-based) on
Without(a, k, n) == SubSeq(a, 1, k) \o SubSeq(a, k + n + 1, Len(a))

\* the token at index k is '-d', '--detach' or '--rm' and every token between
\* the start of the flags and k is an unknown flag or another of these
\* (the token is then not in the place of a known flag's value)
IgnoredBeforeImage(k) ==
  /\ StartIndex(args) <= k /\ k < Len(args) /\ At(args, k) \in IgnoredFlags
  /\ \A j \in StartIndex(args)..(k - 1) :
       \/ At(args, j) \in IgnoredFlags
       \/ StartsWith(At(args, j), <<"-">>) /\ Mapping(StripDashes(Split(At(args, j), "=")[1])) = "none"

\* C12 as stated: a list with '-d', '--detach' or '--rm' before the image
\* parses to the model of the list without that token.
C12_IgnoredAnywhere ==
  pc = "done" =>
    \A k \in 0..(Len(args) - 1) :
      (IgnoredBeforeImage(k) /\ StartIndex(Without(args, k, 1)) = StartIndex(args)) =>
        LET rest == Without(args, k, 1)
        IN container = ParseFrom(rest, StartIndex(rest), NewContainer).container

\* C12 as amended: when the cursor reaches '-d', '--detach', '--rm' or
\* '--restart', the step writes no field (podmanArgs included) and passes over
\* the flag, and over the token after '--restart'; the parse ends as the parse
\* of the list without these tokens would end from the same cursor.
C12_IgnoredAtCursor ==
  [][(pc = "loop" /\ i < Len(args) /\ At(args, i) \in IgnoredFlags \cup {<<"-","-","r","e","s","t","a","r","t">>}) =>
       LET n == IF At(args, i) = <<"-","-","r","e","s","t","a","r","t">> /\ i + 1 < Len(args) THEN 2 ELSE 1
       IN /\ container' = container /\ pc' = "loop"
          /\ i' = IF At(args, i) = <<"-","-","r","e","s","t","a","r","t">> THEN i + 2 ELSE i + 1
          /\ ParseFrom(args, i, container) = ParseFrom(Without(args, i, n), i, container)
    ]_vars

C12_Witness ==
  /\ pc = "done" /\ args = <<<<"-","-","r","e","s","t","a","r","t">>, <<"a","l","w","a","y","s">>, <<"n","g","i","n","x">>>>
  /\ container = setImage(NewContainer, <<"n","g","i","n","x">>)

\* the multi-valued flags as they are spelled, and the sequence each one owns
SequenceOf ==
  [publishPort |-> {<<"-","p">>, <<"-","-","p","u","b","l","i","s","h">>}, volume |-> {<<"-","v">>, <<"-","-","v","o","l","u","m","e">>}, environment |-> {<<"-","e">>, <<"-","-","e","n","v">>, <<"-","-","e","n","v","i","r","o","n","m","e","n","t">>},
   label |-> {<<"-","l">>, <<"-","-","l","a","b","e","l">>}, network |-> {<<"-","-","n","e","t","w","o","r","k">>}, addCapability |-> {<<"-","-","c","a","p","-","a","d","d">>},
   dropCapability |-> {<<"-","-","c","a","p","-","d","r","o","p">>}, dns |-> {<<"-","-","d","n","s">>}, tmpfs |-> {<<"-","-","t","m","p","f","s">>}, environmentFile |-> {<<"-","-","e","n","v","-","f","i","l","e">>}]

\* the part of the token at the cursor that names the flag
FlagAtCursor == IF pc = "loop" /\ i < Len(args) THEN Split(At(args, i), "=")[1] ELSE <<>>

\* C13: a multi-valued flag followed by a value appends that value to the end
\* of its own sequence, whatever the sequence holds (duplicates are kept), and
\* writes nothing else; no step on another flag or on the image writes to the
\* sequence. After parse each sequence so holds its flag's values in token order.
C13_SequencesAppendInOrder ==
  [][\A f \in DOMAIN SequenceOf :
       /\ (pc = "loop" /\ i + 1 < Len(args) /\ At(args, i) \in SequenceOf[f]) =>
            /\ container' = [container EXCEPT ![f] = container[f] \o <<At(args, i + 1)>>]
            /\ i' = i + 2 /\ pc' = "loop"
       /\ container'[f] # container[f] =>
            \E spelling \in SequenceOf[f] : StripDashes(FlagAtCursor) = StripDashes(spelling)
    ]_vars

C13_Witness ==
  /\ pc = "done" /\ args = <<<<"-","p">>, <<"1",":","2">>, <<"-","-","p","u","b","l","i","s","h">>, <<"1",":","2">>>>
  /\ container.publishPort = <<<<"1",":","2">>, <<"1",":","2">>>> /\ container.environment = <<>>

\* the caller's unit and service bags as they were given
CallerUnit == IF options.unit = 0 THEN EmptyBag ELSE given[options.unit]

CallerService == IF options.service = 0 THEN EmptyBag ELSE given[options.service]

\* the service of the manifest that a call of the generator is for
ServiceOf(g) == services[CHOOSE j \in 1..Len(services) : services[j].name = g.name]

\* C14: for a service with dependencies D the unit bag handed to the generator
\* has after = the caller's after followed by '<d>.service' for each d of D in
\* order, wants = the caller's wants followed by the same entries, and every
\* other key of the caller's bag as it was; a service without dependencies
\* gets the caller's unit bag unchanged (none when the caller gave none).
C14_UnitBagMerged ==
  mode = "compose" =>
    \A n \in 1..Len(generated) :
      LET g == generated[n]
          D == ServiceOf(g).dependsOn
          units == [m \in 1..Len(D) |-> D[m] \o <<".", "s", "e", "r", "v", "i", "c", "e">>]
      IN IF Len(D) > 0
         THEN /\ g.unitGiven
              /\ g.unit.after = CallerUnit.after \o units
              /\ g.unit.wants = CallerUnit.wants \o units
              /\ g.unit.keys = CallerUnit.keys \cup {"after", "wants"}
              /\ \A key \in {"description", "type", "restart"} : g.unit[key] = CallerUnit[key]
         ELSE /\ g.unitGiven = (options.unit # 0)
              /\ g.unit = CallerUnit

C14_Witness ==
  /\ mode = "compose" /\ fpc = "returned" /\ Len(generated) = 2
  /\ generated[1].unit.after = <<<<"n",".","t","a","r","g","e","t">>, <<"d","b",".","s","e","r","v","i","c","e">>, <<"c","a","c","h","e",".","s","e","r","v","i","c","e">>>>
  /\ generated[1].unit.wants = <<<<"t",".","t","a","r","g","e","t">>, <<"d","b",".","s","e","r","v","i","c","e">>, <<"c","a","c","h","e",".","s","e","r","v","i","c","e">>>>
  /\ generated[1].unit.description = <<"d">>
  /\ generated[2].unit = given[1]

\* C15: the restart value of a service is translated into the service bag
\* handed to the generator: 'always' and 'on-failure' pass through,
\* 'unless-stopped' gives 'always', and with 'no' the bag has no restart key.
C15_RestartTranslated ==
  mode = "compose" =>
    \A n \in 1..Len(generated) :
      LET g == generated[n]
          restart == ServiceOf(g).restart
      IN /\ restart \in {<<"a","l","w","a","y","s">>, <<"o","n","-","f","a","i","l","u","r","e">>} => "restart" \in g.service.keys /\ g.service.restart = restart
         /\ restart = <<"u","n","l","e","s","s","-","s","t","o","p","p","e","d">> => "restart" \in g.service.keys /\ g.service.restart = <<"a","l","w","a","y","s">>
         /\ restart = <<"n","o">> => "restart" \notin g.service.keys

\* C16: composeToQuadlet never writes to the caller's option bags: at every
\* point of the call, and after it, the bags the caller gave (their after and
\* wants lists included) are what they were before the call.
C16_CallerBagsUntouched ==
  mode = "compose" => Len(heap) >= Len(given) /\ SubSeq(heap, 1, Len(given)) = given

C16_Witness ==
  /\ mode = "compose" /\ fpc = "returned" /\ Len(services) = 2 /\ options.unit = 1 /\ options.service = 2
  /\ Len(services[1].dependsOn) = 0 /\ Len(services[2].dependsOn) = 2
  /\ services[1].restart = <<"u","n","l","e","s","s","-","s","t","o","p","p","e","d">> /\ services[2].restart = <<"a","l","w","a","y","s">>
  /\ given[1].after = <<<<"n",".","t","a","r","g","e","t">>>> /\ heap[1].after = <<<<"n",".","t","a","r","g","e","t">>>>
  /\ generated[2].unit.after = <<<<"n",".","t","a","r","g","e","t">>, <<"d","b",".","s","e","r","v","i","c","e">>, <<"c","a","c","h","e",".","s","e","r","v","i","c","e">>>>

\* the text the generator returned for its n-th call
TextOf(n) ==
  generateFile(generated[n].container, generated[n].unitGiven, generated[n].unit, generated[n].serviceGiven, generated[n].service)

RECURSIVE CommaJoined(_)
CommaJoined(errs) == IF Len(errs) = 1 THEN errs[1] ELSE errs[1] \o <<",", " ">> \o CommaJoined(Tail(errs))

\* C18: containerToQuadlet validates first; with one or more errors it throws
\* 'Container validation failed: ' and the errors joined with ', ', and has
\* neither normalized nor generated; with none it normalizes, then calls the
\* generator once and returns its text.
C18_ValidateBeforeGenerate ==
  mode \in {"compose", "container"} =>
    /\ \A n \in 1..Len(log) :
         /\ log[n] = "validate" => n = 1 \/ log[n - 1] = "generate"
         /\ log[n] = "normalize" => n > 1 /\ log[n - 1] = "validate"
         /\ log[n] = "generate" => n > 1 /\ log[n - 1] = "normalize"
    /\ fpc = "threw" =>
         /\ Len(errors) > 0 /\ log[Len(log)] = "validate"
         /\ message = <<"C","o","n","t","a","i","n","e","r"," ","v","a","l","i","d","a","t","i","o","n"," ","f","a","i","l","e","d",":"," ">> \o CommaJoined(errors)
    /\ fpc = "normalize" => errors = <<>>
    /\ (mode = "container" /\ fpc = "returned") =>
         /\ log = <<"validate", "normalize", "generate">> /\ Len(generated) = 1 /\ ret = TextOf(1)

C18_Witness ==
  /\ mode = "container" /\ fpc = "threw" /\ log = <<"validate">> /\ generated = <<>>
  /\ message = <<"C","o","n","t","a","i","n","e","r"," ","v","a","l","i","d","a","t","i","o","n"," ","f","a","i","l","e","d",":"," ","I","m","a","g","e"," ","i","s"," ","r","e","q","u","i","r","e","d",","," ","I","n","v","a","l","i","d"," ","p","o","r","t",":"," ","1",":","a">>

\* C19: validate() reports an 'Invalid port' error for every published port
\* whose host or container part is not a number of 1..65535 (a trailing
\* '/tcp' or '/udp' is accepted), reports 'Image is required' exactly when the
\* image is empty, and reports nothing for an image with valid ports only.
C19_InvalidPortsReported ==
  fpc = "validated" =>
    LET c == cur.container IN
    /\ \A n \in 1..Len(c.publishPort) :
         ~PortSpecValid(c.publishPort[n]) => \E m \in 1..Len(errors) : errors[m] = <<"I","n","v","a","l","i","d"," ","p","o","r","t",":"," ">> \o c.publishPort[n]
    /\ (\E m \in 1..Len(errors) : errors[m] = <<"I","m","a","g","e"," ","i","s"," ","r","e","q","u","i","r","e","d">>) <=> c.image = <<>>
    /\ (c.image # <<>> /\ \A n \in 1..Len(c.publishPort) : PortSpecValid(c.publishPort[n])) => errors = <<>>

\* the last '/'-separated segment of an image
LastSegment(image) ==
  LET slashes == {n \in 1..Len(image) : image[n] = "/"}
  IN IF slashes = {} THEN image ELSE SubSeq(image, (CHOOSE n \in slashes : \A m \in slashes : m <= n) + 1, Len(image))

\* C20: getDefaultName returns containerName when one is set (not null and not
\* empty); otherwise, for an image whose last '/'-separated segment holds at
\* most one ':', the last segment without the ':tag'; it changes no field.
C20_DefaultNamePure ==
  [][(fpc = "method" /\ fpc' = "named") =>
       LET c == cur.container
           seg == LastSegment(c.image)
           colons == {n \in 1..Len(seg) : seg[n] = ":"}
       IN /\ cur' = cur
          /\ c.containerName \notin {Null, <<>>} => ret' = c.containerName
          /\ (c.containerName \in {Null, <<>>} /\ colons = {}) => ret' = seg
          /\ (c.containerName \in {Null, <<>>} /\ Cardinality(colons) = 1) =>
               ret' = SubSeq(seg, 1, (CHOOSE n \in colons : TRUE) - 1)
    ]_vars

C20_Witness ==
  /\ fpc = "named" /\ cur.container.containerName = Null
  /\ cur.container.image = <<"a", "/", "b", ":", "a">> /\ ret = <<"b">>

\* C26: every turn of the parse loop stops the parse (at the image, at the
\* end of the tokens, or by the throw of C1) or moves the cursor forward by at
\* least one token and at most one past the end, so the loop takes at most as
\* many turns as there are tokens.
C26_CursorMovesForward ==
  [][pc = "loop" => \/ pc' \in {"done", "threw"}
                    \/ pc' = "loop" /\ i' > i /\ i' <= Len(args) + 1
    ]_vars

C26_Witness ==
  /\ pc = "done" /\ args = <<<<"-","u">>, <<"w","e","b">>, <<"-","-","n","a","m","e","=","w","e","b">>>> /\ i = 4
  /\ container.user = <<"w","e","b">> /\ container.containerName = <<"w","e","b">>

\* the text of a token after its first '='
AfterFirstEquals(t) == SubSeq(t, IndexOf(t, "=") + 1, Len(t))

\* C27: a known flag written '--flag=value' is split at the first '=' only:
\* '--env=KEY=VALUE' adds 'KEY=VALUE' to environment, a multi-valued flag
\* adds the whole text after the first '=' to its sequence, and '--name=V'
\* sets containerName to the whole of V.
C27_SplitAtFirstEquals ==
  [][(pc = "loop" /\ i < Len(args) /\ Includes(At(args, i), "=")) =>
       /\ \A f \in DOMAIN SequenceOf :
            FlagAtCursor \in SequenceOf[f] => container'[f] = container[f] \o <<AfterFirstEquals(At(args, i))>>
       /\ FlagAtCursor = <<"-","-","n","a","m","e">> => container'.containerName = AfterFirstEquals(At(args, i))
    ]_vars

\* C28: the step that takes the image ends the parse and writes image and
\* exec only: the flags after the image change no other field, and no step
\* follows it.
C28_NothingAfterImage ==
  [][/\ (pc = "loop" /\ i < Len(args) /\ At(args, i)[1] # "-") =>
          /\ pc' = "done"
          /\ \A f \in (DOMAIN container) \ {"image", "exec"} : container'[f] = container[f]
     /\ pc # "done"
    ]_vars

C28_Witness ==
  /\ pc = "done" /\ args = <<<<"n","g","i","n","x">>, <<"-","-","n","a","m","e">>, <<"w","e","b">>>>
  /\ container = [NewContainer EXCEPT !.image = <<"n","g","i","n","x">>, !.exec = <<"-","-","n","a","m","e"," ","w","e","b">>]

\* the entries of a list
EntriesOf(list) == {list[n] : n \in 1..Len(list)}

\* C29: the unit and service bags handed to the generator for one service
\* are determined by the caller's options and by that service's own
\* dependency list and restart value: two services with the same
\* dependencies get the same unit bag, two with the same restart value the
\* same service bag, every entry of after and wants is the caller's or names
\* one of the service's own dependencies, and a restart value that differs
\* from the caller's comes from the service's own restart value.
C29_BagsPerService ==
  mode = "compose" =>
    \A n \in 1..Len(generated) :
      LET g == generated[n]
          own == ServiceOf(g)
          ownUnits == {d \o <<".", "s", "e", "r", "v", "i", "c", "e">> : d \in EntriesOf(own.dependsOn)}
      IN /\ \A m \in 1..Len(generated) :
              LET other == generated[m] IN
              /\ ServiceOf(other).dependsOn = own.dependsOn => other.unit = g.unit /\ other.unitGiven = g.unitGiven
              /\ ServiceOf(other).restart = own.restart => other.service = g.service /\ other.serviceGiven = g.serviceGiven
         /\ EntriesOf(g.unit.after) \subseteq EntriesOf(CallerUnit.after) \cup ownUnits
         /\ EntriesOf(g.unit.wants) \subseteq EntriesOf(CallerUnit.wants) \cup ownUnits
         /\ \/ g.service.restart = CallerService.restart
            \/ Truthy(own.restart) /\ g.service.restart \in {own.restart, <<"a", "l", "w", "a", "y", "s">>}
         /\ \A key \in {"description", "type"} : g.unit[key] = CallerUnit[key] /\ g.service[key] = CallerService[key]

C29_Witness ==
  /\ mode = "compose" /\ fpc = "returned" /\ Len(generated) = 2 /\ options.unit # 0 /\ options.service # 0
  /\ services[1].dependsOn = <<<<"d","b">>, <<"c","a","c","h","e">>>> /\ services[1].restart = <<"a","l","w","a","y","s">>
  /\ services[2].dependsOn = <<>> /\ services[2].restart = Undefined
  /\ generated[1].service.restart = <<"a","l","w","a","y","s">> /\ generated[1].unit.after # CallerUnit.after
  /\ generated[2].unit = CallerUnit /\ generated[2].service = CallerService

\* the lines of the generated text that start with a key
LinesOf(key) == SelectSeq(gtext, LAMBDA l : StartsWith(l, key))

\* a value with a backslash put before each double quote
RECURSIVE QuotesEscaped(_)
QuotesEscaped(v) ==
  IF v = <<>> THEN <<>>
  ELSE QuotesEscaped(SubSeq(v, 1, Len(v) - 1)) \o (IF v[Len(v)] = "\"" THEN <<"\\", "\"">> ELSE <<v[Len(v)]>>)

\* a value in double quotes when it holds a space, and as it is otherwise
Wrapped(v) == IF \E n \in 1..Len(v) : v[n] = " " THEN <<"\"">> \o QuotesEscaped(v) \o <<"\"">> ELSE v

\* the entries of a sequence field, one line each, escaped one by one
EntryLines(key, entries) == [n \in 1..Len(entries) |-> key \o Wrapped(entries[n])]

Headers == SelectSeq(gtext, LAMBDA l : l[1] = "[")

\* the sections that have a populated key: the container section, and the
\* section of each option bag that is given with at least one key
PopulatedSections ==
  (IF gopts.unitGiven /\ gopts.unit.keys # {} THEN <<<<"[","U","n","i","t","]">>>> ELSE <<>>)
  \o <<<<"[","C","o","n","t","a","i","n","e","r","]">>>>
  \o (IF gopts.globalArgsGiven /\ gopts.globalArgs.keys # {} THEN <<<<"[","G","l","o","b","a","l","A","r","g","s","]">>>> ELSE <<>>)
  \o (IF gopts.serviceGiven /\ gopts.service.keys # {} THEN <<<<"[","S","e","r","v","i","c","e","]">>>> ELSE <<>>)
  \o (IF gopts.installGiven /\ gopts.install.keys # {} THEN <<<<"[","I","n","s","t","a","l","l","]">>>> ELSE <<>>)

Lacking(service) == service.image = Undefined /\ service.build = Undefined

\* the document is not an object, has no non-empty services mapping, has a
\* service with neither image nor build, or has the top-level key configs
Malformed ==
  \/ doc.kind # "object" \/ ~doc.hasServices \/ doc.services = <<>>
  \/ \E n \in 1..Len(doc.services) : Lacking(doc.services[n])
  \/ doc.configs

\* C24: for a malformed document the manifest parser never returns a result,
\* partial or not; when it stops it has thrown an error, and for a document
\* with services that error names a service of the document that has neither
\* image nor build, or the unsupported key that the document has.
C24_MalformedNeverReturns ==
  (mode = "manifest" /\ Malformed) =>
    /\ mpc # "returned"
    /\ mpc = "threw" =>
         /\ merror # Null
         /\ (doc.kind = "object" /\ doc.hasServices /\ doc.services # <<>>) =>
              \/ \E n \in 1..Len(doc.services) :
                   /\ Lacking(doc.services[n])
                   /\ merror = <<"S", "e", "r", "v", "i", "c", "e", " ", "'">> \o doc.services[n].name \o <<"'"," ","m","u","s","t"," ","h","a","v","e"," ","e","i","t","h","e","r"," ","'","i","m","a","g","e","'"," ","o","r"," ","'","b","u","i","l","d","'">>
              \/ doc.configs /\ merror = <<"C","o","m","p","o","s","e"," ","f","e","a","t","u","r","e"," ","'","c","o","n","f","i","g","s","'"," ","i","s"," ","n","o","t"," ","y","e","t"," ","s","u","p","p","o","r","t","e","d">>
    /\ (mpc = "services" /\ msvc = Len(doc.services)) => doc.configs

C24_Witness ==
  /\ mpc = "threw" /\ Len(doc.services) = 2 /\ ~doc.configs
  /\ ~Lacking(doc.services[1]) /\ Lacking(doc.services[2])
  /\ Len(mresult) = 1
  /\ merror = <<"S","e","r","v","i","c","e"," ","'","d","b","'"," ","m","u","s","t"," ","h","a","v","e"," ","e","i","t","h","e","r"," ","'","i","m","a","g","e","'"," ","o","r"," ","'","b","u","i","l","d","'">>

\* the tokens of the CLI command with the security options and image of a service
SecurityCommand(service) ==
  ArrayCommand([n \in 1..(2 * Len(service.security_opt)) |->
                  IF n % 2 = 1 THEN <<"-","-","s","e","c","u","r","i","t","y","-","o","p","t">> ELSE service.security_opt[n \div 2]]
               \o <<mresult[1][2].image>>)

\* C25: a manifest service and the CLI command with the same security options
\* give equal security fields: noNewPrivileges, securityLabelDisable,
\* seccompProfile and the passthrough podmanArgs.
C25_SecurityOptAsCli ==
  (mpc = "returned" /\ Len(doc.services) = 1) =>
    LET cli == Parse(SecurityCommand(doc.services[1])).container
        manifest == mresult[1][2]
    IN \A f \in {"noNewPrivileges", "securityLabelDisable", "seccompProfile", "podmanArgs"} : manifest[f] = cli[f]

\* C30: the result of a call of parse is the result of parsing its command
\* with a new parser, whatever was parsed before on the same parser; the
\* results of the earlier calls stay what they were; and the token list the
\* caller passed is the list parse works on to the end, unmodified.
C30_CallsShareNothing ==
  /\ pc \in {"done", "threw"} =>
       /\ container = Parse(command).container
       /\ (pc = "threw") = Parse(command).threw
  /\ \A n \in 1..Len(earlier) :
       /\ earlier[n].container = Parse(earlier[n].command).container
       /\ earlier[n].threw = Parse(earlier[n].command).threw
  /\ (command.kind = "array" /\ pc \in {"skip", "loop", "done", "threw"}) => args = command.items

C30_Witness ==
  /\ Len(earlier) = 1 /\ earlier[1].command = ArrayCommand(<<<<"-","p">>, <<"1",":","2">>, <<"n","g","i","n","x">>>>)
  /\ earlier[1].container.publishPort = <<<<"1",":","2">>>>
  /\ command = ArrayCommand(<<<<"-","-","x","=","1">>, <<"-","e">>, <<"K","=","V">>>>) /\ pc = "done"
  /\ container.publishPort = <<>> /\ container.image = <<>> /\ container.environment = <<<<"K","=","V">>>>
  /\ container.podmanArgs = <<"-","-","x","=","1">>

====
